---- MODULE Spec2Model ----
(***************************************************************************)
(* A model of the viam-ai-updater generation pipeline                      *)
(* (src/ai_updater/ai_updater.py) and of its patch validator               *)
(* (src/ai_updater/ai_updater_tools.py).                                   *)
(*                                                                         *)
(* Text is a sequence of one-character strings.  The language model is an  *)
(* external collaborator: every reply it gives is a nondeterministic       *)
(* choice from a small set.                                                *)
(***************************************************************************)
EXTENDS Integers, Sequences, FiniteSets, TLC

(***************************************************************************)
(* Bounds of the model.                                                    *)
(***************************************************************************)
\* longest file content drawn for the patch validator
MaxContent == 3
\* most entries in a drawn search_text list
MaxPairs == 2
\* most characters, summed over all entries, in a drawn pair of lists
\* (search_text, replacement_text)
MaxPatchChars == 4

\* the alphabet of file contents and patch texts
Chars == {"a", "b"}

\* ai_updater_tools.py:44
MAX_ATTEMPTS == 5

(***************************************************************************)
(* Text helpers: Python's str operations on sequences of characters.       *)
(***************************************************************************)
\* all texts of at most n characters
Str(n) == UNION {[1..k -> Chars] : k \in 0..n}

\* all lists of at most n texts whose lengths sum to at most budget
RECURSIVE TextLists(_, _)
TextLists(n, budget) ==
    IF n = 0 THEN {<<>>}
    ELSE {<<>>} \cup
         UNION {{<<s>> \o rest : rest \in TextLists(n - 1, budget - Len(s))} :
                s \in Str(budget)}

\* text s matches in content C at position p
MatchAt(C, s, p) ==
    /\ p >= 1
    /\ p + Len(s) - 1 <= Len(C)
    /\ SubSeq(C, p, p + Len(s) - 1) = s

\* the positions of C at which s matches
Positions(C, s) == {p \in 1..Len(C) : MatchAt(C, s, p)}

\* str.count(s) from position p on: non-overlapping matches, left to right
RECURSIVE CountFrom(_, _, _)
CountFrom(C, s, p) ==
    IF p + Len(s) - 1 > Len(C) THEN 0
    ELSE IF MatchAt(C, s, p) THEN 1 + CountFrom(C, s, p + Len(s))
    ELSE CountFrom(C, s, p + 1)

\* C.count(s)
StrCount(C, s) == IF s = <<>> THEN Len(C) + 1 ELSE CountFrom(C, s, 1)

\* str.replace(s, r) from position p on: every non-overlapping match
RECURSIVE ReplaceFrom(_, _, _, _)
ReplaceFrom(C, s, r, p) ==
    IF p > Len(C) THEN <<>>
    ELSE IF MatchAt(C, s, p) THEN r \o ReplaceFrom(C, s, r, p + Len(s))
    ELSE <<C[p]>> \o ReplaceFrom(C, s, r, p + 1)

\* "".replace("", r) puts r before every character and at the end
RECURSIVE Interleave(_, _, _)
Interleave(C, r, p) ==
    IF p > Len(C) THEN r ELSE r \o <<C[p]>> \o Interleave(C, r, p + 1)

\* a replace that stops after the first match, as C.replace(s, r, 1)
StrReplace_FirstOnly(C, s, r) ==
    IF s = <<>> THEN r \o C
    ELSE IF Positions(C, s) = {} THEN C
    ELSE LET p == CHOOSE q \in Positions(C, s) : \A o \in Positions(C, s) : q <= o
         IN  SubSeq(C, 1, p - 1) \o r \o SubSeq(C, p + Len(s), Len(C))

\* C.replace(s, r)
StrReplace(C, s, r) ==
    IF s = <<>> THEN Interleave(C, r, 1) ELSE ReplaceFrom(C, s, r, 1)

\* s in C
Contains(C, s) == s = <<>> \/ Positions(C, s) # {}

\* the sum of the lengths of the texts of a list
RECURSIVE SumLen(_)
SumLen(l) == IF l = <<>> THEN 0 ELSE Len(Head(l)) + SumLen(Tail(l))

\* min(a, b)
Min(a, b) == IF a < b THEN a ELSE b

(***************************************************************************)
(* The state of a file on disk: its text, or one of two markers (texts    *)
(* over no character of the alphabet, so that no content equals one).      *)
(***************************************************************************)
\* os.path.exists(file_path) is false
NoFile == <<"no such file">>
\* the file exists and open() or read() raises
Unreadable == <<"unreadable file">>

IsText(f) == f \notin {NoFile, Unreadable}

(***************************************************************************)
(* apply_patch (ai_updater_tools.py:27-131).                               *)
(* A result is the returned dict together with what the call did on the    *)
(* way: kind names the message, patch is the i+1 the message cites, count  *)
(* the search_count it cites, read whether the file was read, counted how  *)
(* many times file_content.count was evaluated.                            *)
(***************************************************************************)
Result(success, kind, patch, count, stop, read, counted) ==
    [success |-> success, kind |-> kind, patch |-> patch, count |-> count,
     stop_trying |-> stop, read |-> read, counted |-> counted]

\* a failure branch whose message cites the loop index i, not i + 1
Failure_IndexFromZero(attempt_number, kind, patch, count, read, counted) ==
    IF attempt_number > MAX_ATTEMPTS
    THEN Result(FALSE, "stop", 0, 0, TRUE, read, counted)
    ELSE Result(FALSE, kind, patch - 1, count, FALSE, read, counted)

\* a failure branch that gives up at the cap, not past it
Failure_CapInclusive(attempt_number, kind, patch, count, read, counted) ==
    IF attempt_number >= MAX_ATTEMPTS
    THEN Result(FALSE, "stop", 0, 0, TRUE, read, counted)
    ELSE Result(FALSE, kind, patch, count, FALSE, read, counted)

\* a failure branch without the cap: every failure is an ordinary one
Failure_NeverStops(attempt_number, kind, patch, count, read, counted) ==
    Result(FALSE, kind, patch, count, FALSE, read, counted)

\* a failure branch that gives up one attempt later
Failure_StopsLater(attempt_number, kind, patch, count, read, counted) ==
    IF attempt_number > MAX_ATTEMPTS + 1
    THEN Result(FALSE, "stop", 0, 0, TRUE, read, counted)
    ELSE Result(FALSE, kind, patch, count, FALSE, read, counted)

\* a failure branch: max_attempts_return past the cap, the branch's own
\* message otherwise
Failure(attempt_number, kind, patch, count, read, counted) ==
    IF attempt_number > MAX_ATTEMPTS
    THEN Result(FALSE, "stop", 0, 0, TRUE, read, counted)
    ELSE Result(FALSE, kind, patch, count, FALSE, read, counted)

\* a validation loop that examines the pairs from the last to the first
RECURSIVE ValidateDown(_, _, _, _, _)
ValidateDown(file_content, search_text, n, attempt_number, i) ==
    IF i < 1 THEN Result(TRUE, "ok", 0, 0, FALSE, TRUE, n)
    ELSE IF search_text[i] = <<>>
         THEN Failure(attempt_number, "empty", i, 0, TRUE, n - i)
    ELSE LET search_count == StrCount(file_content, search_text[i]) IN
         IF search_count = 0
         THEN Failure(attempt_number, "notfound", i, 0, TRUE, n - i + 1)
         ELSE IF search_count > 1
         THEN Failure(attempt_number, "multiple", i, search_count, TRUE, n - i + 1)
         ELSE ValidateDown(file_content, search_text, n, attempt_number, i - 1)

ValidateFrom_FromTheEnd(file_content, search_text, n, attempt_number, i) ==
    ValidateDown(file_content, search_text, n, attempt_number, n)

\* the validation loop without the test of line 90 for an empty search text
RECURSIVE ValidateFrom_EmptyAllowed(_, _, _, _, _)
ValidateFrom_EmptyAllowed(file_content, search_text, n, attempt_number, i) ==
    IF i > n THEN Result(TRUE, "ok", 0, 0, FALSE, TRUE, n)
    ELSE LET search_count == StrCount(file_content, search_text[i]) IN
         IF search_count = 0
         THEN Failure(attempt_number, "notfound", i, 0, TRUE, i)
         ELSE IF search_count > 1
         THEN Failure(attempt_number, "multiple", i, search_count, TRUE, i)
         ELSE ValidateFrom_EmptyAllowed(file_content, search_text, n,
                                        attempt_number, i + 1)

\* the validation loop from pair i on, over zip(search_text, replacement_text)
RECURSIVE ValidateFrom(_, _, _, _, _)
ValidateFrom(file_content, search_text, n, attempt_number, i) ==
    IF i > n THEN Result(TRUE, "ok", 0, 0, FALSE, TRUE, n)
    ELSE IF search_text[i] = <<>>
         THEN Failure(attempt_number, "empty", i, 0, TRUE, i - 1)
    ELSE LET search_count == StrCount(file_content, search_text[i]) IN
         IF search_count = 0
         THEN Failure(attempt_number, "notfound", i, 0, TRUE, i)
         ELSE IF search_count > 1
         THEN Failure(attempt_number, "multiple", i, search_count, TRUE, i)
         ELSE ValidateFrom(file_content, search_text, n, attempt_number, i + 1)

\* a validation loop that applies each pair it has accepted before it looks
\* at the next one
RECURSIVE ValidateApplying(_, _, _, _, _)
ValidateApplying(content, search_text, replacement_text, attempt_number, i) ==
    IF i > Len(search_text) THEN Result(TRUE, "ok", 0, 0, FALSE, TRUE, i - 1)
    ELSE IF search_text[i] = <<>>
         THEN Failure(attempt_number, "empty", i, 0, TRUE, i - 1)
    ELSE LET search_count == StrCount(content, search_text[i]) IN
         IF search_count = 0
         THEN Failure(attempt_number, "notfound", i, 0, TRUE, i)
         ELSE IF search_count > 1
         THEN Failure(attempt_number, "multiple", i, search_count, TRUE, i)
         ELSE ValidateApplying(
                StrReplace(content, search_text[i], replacement_text[i]),
                search_text, replacement_text, attempt_number, i + 1)

\* apply_patch validating pair by pair after partial application
ApplyPatch_PairByPair(file, search_text, replacement_text, attempt_number) ==
    IF Len(search_text) # Len(replacement_text)
    THEN Failure(attempt_number, "mismatch", 0, 0, FALSE, 0)
    ELSE IF file = NoFile
    THEN Failure(attempt_number, "nofile", 0, 0, FALSE, 0)
    ELSE IF file = Unreadable
    THEN Failure(attempt_number, "readerror", 0, 0, FALSE, 0)
    ELSE ValidateApplying(file, search_text, replacement_text, attempt_number, 1)

\* apply_patch with the length check after the validation loop
ApplyPatch_LengthCheckLast(file, search_text, replacement_text, attempt_number) ==
    IF file = NoFile
    THEN Failure(attempt_number, "nofile", 0, 0, FALSE, 0)
    ELSE IF file = Unreadable
    THEN Failure(attempt_number, "readerror", 0, 0, FALSE, 0)
    ELSE LET r == ValidateFrom(file, search_text,
                               Min(Len(search_text), Len(replacement_text)),
                               attempt_number, 1)
         IN  IF r.success /\ Len(search_text) # Len(replacement_text)
             THEN Failure(attempt_number, "mismatch", 0, 0, TRUE, r.counted)
             ELSE r

\* apply_patch with the cap tested before anything else, for a proposal that
\* would validate as well
ApplyPatch_CapBeforeValidation(file, search_text, replacement_text, attempt_number) ==
    IF attempt_number > MAX_ATTEMPTS
    THEN Result(FALSE, "stop", 0, 0, TRUE, FALSE, 0)
    ELSE IF Len(search_text) # Len(replacement_text)
    THEN Failure(attempt_number, "mismatch", 0, 0, FALSE, 0)
    ELSE IF file = NoFile
    THEN Failure(attempt_number, "nofile", 0, 0, FALSE, 0)
    ELSE IF file = Unreadable
    THEN Failure(attempt_number, "readerror", 0, 0, FALSE, 0)
    ELSE ValidateFrom(file, search_text,
                      Min(Len(search_text), Len(replacement_text)),
                      attempt_number, 1)

ApplyPatch(file, search_text, replacement_text, attempt_number) ==
    IF Len(search_text) # Len(replacement_text)
    THEN Failure(attempt_number, "mismatch", 0, 0, FALSE, 0)
    ELSE IF file = NoFile
    THEN Failure(attempt_number, "nofile", 0, 0, FALSE, 0)
    ELSE IF file = Unreadable
    THEN Failure(attempt_number, "readerror", 0, 0, FALSE, 0)
    ELSE ValidateFrom(file, search_text,
                      Min(Len(search_text), Len(replacement_text)),
                      attempt_number, 1)

(***************************************************************************)
(* The substitution of generate_patch (ai_updater.py:265-267).             *)
(***************************************************************************)
RECURSIVE SubstituteFrom(_, _, _, _)
SubstituteFrom(content, search_text, replacement_text, i) ==
    IF i > Min(Len(search_text), Len(replacement_text)) THEN content
    ELSE SubstituteFrom(StrReplace(content, search_text[i], replacement_text[i]),
                        search_text, replacement_text, i + 1)

\* the substitution with the pairs taken from the last to the first
RECURSIVE SubstituteDown(_, _, _, _)
SubstituteDown(content, search_text, replacement_text, i) ==
    IF i = 0 THEN content
    ELSE SubstituteDown(StrReplace(content, search_text[i], replacement_text[i]),
                        search_text, replacement_text, i - 1)

Substitute_Reversed(content, search_text, replacement_text) ==
    SubstituteDown(content, search_text, replacement_text,
                   Min(Len(search_text), Len(replacement_text)))

Substitute(content, search_text, replacement_text) ==
    SubstituteFrom(content, search_text, replacement_text, 1)

(***************************************************************************)
(* Bounds and helpers of the pipeline.                                     *)
(***************************************************************************)
\* most paths in the candidate list phase 1 returns
MaxCandidates == 2
\* most entries in the files_to_update list the analysis returns
MaxFiles == 2

\* the relative paths the model may name
Paths == {"p1", "p2"}

\* a file of the SDK tree, of the ai_generated shadow tree, a debug file
SdkFile(p) == <<"sdk", p>>
GenFile(p) == <<"ai_generated", p>>
DebugFile(name) == <<"debug", name>>
DebugNames == {"gitdifftest.txt", "getrelevantcontext_stage1.txt",
               "getrelevantcontext_stage2.txt", "getdiffanalysis.txt"}
FileKeys == {SdkFile(p) : p \in Paths} \cup {GenFile(p) : p \in Paths}
            \cup {DebugFile(n) : n \in DebugNames}

\* what a debug file is written with (the text itself is not modelled)
DebugText == <<"debug output">>

\* read_file_content (ai_updater_utils.py:15-29): the text, or the error string
ErrorString == <<"Error reading file">>

\* read_file_content without its except clause: what open gave is passed on
ReadFileContent_Unguarded(f) == f

ReadFileContent(f) == IF IsText(f) THEN f ELSE ErrorString

\* ai_updater.py:279: the message standing in for the content of a new file
DoesNotExistMessage == <<"This file does not exist">>

\* run as it would be without the check of line 362
NoChanges_Never(git_diff_output) == FALSE

\* ai_updater.py:362: the diff is empty
NoChanges(git_diff_output) == git_diff_output = ""

\* the output path with the branch of line 328 left out: always in place
AiFilePath_InPlace(mode, p) == SdkFile(p)

\* ai_updater.py:328-334: where the output of a file goes
AiFilePath(mode, p) == IF mode = "test" THEN GenFile(p) ELSE SdkFile(p)

\* the strategy with the branches of line 335 exchanged
Strategy_Inverted(requires_creation) ==
    IF requires_creation THEN "generate_patch" ELSE "generate_file"

\* ai_updater.py:335-338: the strategy for one file
Strategy(requires_creation) ==
    IF requires_creation THEN "generate_file" ELSE "generate_patch"

\* ai_updater.py:208: the loop condition of generate_patch
LoopRuns(patch_success, stop_trying) == ~patch_success /\ ~stop_trying

\* the check of line 315 taking an empty plan for an error as well
ListsMismatch_OrEmpty(plan) ==
    \/ Len(plan.files_to_update) # Len(plan.implementation_details)
    \/ Len(plan.files_to_update) = 0

\* ai_updater.py:315: the lists the run refuses to go on with
ListsMismatch(plan) ==
    Len(plan.files_to_update) # Len(plan.implementation_details)

(***************************************************************************)
(* The post-processing of generate_file (ai_updater.py:292-294).           *)
(***************************************************************************)
Whitespace == {" ", "\n"}
\* the backtick character, written ^ here
Backtick == "^"
Fence == <<Backtick, Backtick, Backtick>>

RECURSIVE LStrip(_)
LStrip(t) == IF t # <<>> /\ Head(t) \in Whitespace THEN LStrip(Tail(t)) ELSE t

RECURSIVE RStrip(_)
RStrip(t) ==
    IF t # <<>> /\ t[Len(t)] \in Whitespace
    THEN RStrip(SubSeq(t, 1, Len(t) - 1)) ELSE t

\* str.strip()
Strip(t) == RStrip(LStrip(t))

StartsWith(t, s) == MatchAt(t, s, 1)
EndsWith(t, s) == MatchAt(t, s, Len(t) - Len(s) + 1)

\* str.splitlines()
RECURSIVE SplitLines(_)
SplitLines(t) ==
    IF t = <<>> THEN <<>>
    ELSE IF \A q \in 1..Len(t) : t[q] # "\n" THEN <<t>>
    ELSE LET p == CHOOSE q \in 1..Len(t) :
                      t[q] = "\n" /\ \A r \in 1..(q - 1) : t[r] # "\n"
         IN  <<SubSeq(t, 1, p - 1)>> \o SplitLines(SubSeq(t, p + 1, Len(t)))

\* "\n".join(lines)
RECURSIVE JoinLines(_)
JoinLines(lines) ==
    IF lines = <<>> THEN <<>>
    ELSE IF Len(lines) = 1 THEN lines[1]
    ELSE lines[1] \o <<"\n">> \o JoinLines(Tail(lines))

\* the post-processing without the removal of the fence: strip() alone
CleanResponse_KeepsFence(text) == Strip(text)

\* ai_updater.py:292-294: the text generate_file writes for a reply
CleanResponse(text) ==
    LET cleaned_response == Strip(text) IN
    IF StartsWith(cleaned_response, Fence) /\ EndsWith(cleaned_response, Fence)
    THEN LET lines == SplitLines(cleaned_response)
         IN  JoinLines(SubSeq(lines, 2, Len(lines) - 1)) \o <<"\n">>
    ELSE cleaned_response

(***************************************************************************)
(* The replies of the language model.                                      *)
(***************************************************************************)
\* phase 1: a list of candidate paths
CandidateLists == UNION {[1..n -> Paths] : n \in 0..MaxCandidates}

\* phase 2: one ContextInclusion (its reasoning text is not modelled)
Decisions == [filename : Paths, inclusion : BOOLEAN]

\* the instruction text the analysis writes for its k-th file
Instruction(k) == <<"instruction", k>>

\* a list one shorter than, as long as, or one longer than n
Around(n) == {m \in {n - 1, n, n + 1} : m >= 0}

\* the flag lists for n files: one flag short, one per file, or one too many
\* (the flag past the last file is never read: it is drawn as FALSE)
FlagLists(n) ==
    UNION {[1..m -> BOOLEAN] : m \in {n - 1, n} \cap Nat}
    \cup {c \o <<FALSE>> : c \in [1..n -> BOOLEAN]}

\* the analysis: a RequiredChanges, its three lists of any lengths
Plans ==
    UNION {
      UNION {
        {[files_to_update |-> f,
          implementation_details |-> [k \in 1..d |-> Instruction(k)],
          requires_creation |-> c] : c \in FlagLists(Len(f))} :
        d \in Around(Len(f))} :
      f \in UNION {[1..n -> Paths] : n \in 0..MaxFiles}}

\* a draft turn: a call of apply_patch with a proposal, or a malformed turn.
\* The first proposal has two pairs and validates against p1; the order of
\* its pairs decides what it gives ("ba" in list order).  The second is
\* ambiguous in p1.
Proposal(s, r) == [kind |-> "apply_patch", search_text |-> s, replacement_text |-> r]
Malformed(kind) == [kind |-> kind, search_text |-> <<>>, replacement_text |-> <<>>]
DraftReplies ==
    {Proposal(<<<<"b">>, <<"a", "a">>>>, <<<<"a">>, <<"b">>>>),
     Proposal(<<<<"a">>>>, <<<<"b">>>>),
     Malformed("no_candidates"),
     Malformed("no_function_call"),
     Malformed("wrong_function")}

\* whole-file generation: the raw text of the reply, plain or fenced
GenTexts == {<<"b">>, Fence \o <<"\n", "b", "\n">> \o Fence}

\* the SDK tree at the start of a run: p1 exists, p2 does not
InitialFiles ==
    [k \in FileKeys |-> IF k = SdkFile("p1") THEN <<"a", "a", "b">> ELSE NoFile]

(***************************************************************************)
(* State.                                                                  *)
(***************************************************************************)
VARIABLES
    \* the patch validator called on drawn inputs
    tpc,              \* "idle", "call", "returned", "patched"
    disk,             \* the file apply_patch is pointed at, as it is on disk
    disk0,            \* history variable: disk when the call was made
    search_text,      \* function_call.args['search_text']
    replacement_text, \* function_call.args['replacement_text']
    attempt_number,   \* apply_patch's attempt_number
    tool_result,      \* what apply_patch returned
    patched_content,  \* generate_patch's patched_content
    \* the post-processing of generate_file on drawn replies
    gpc,              \* "idle", "reply", "written"
    response_text,    \* response.text
    written_text,     \* what write_to_file is given
    \* Antrhopic.apply_changes on drawn changes
    cpc,              \* "idle", "apply", "done"
    changes,          \* the list of changes
    dry_run,          \* the dry_run argument
    sdk_files,        \* the files under sdk_path
    sdk_files0,       \* history variable: those files at the call
    change_idx,       \* the place of the for loop in changes, from 1
    \* one run of the pipeline
    pc,               \* where run() is
    args,             \* the command line: mode, debug, noai
    git_diff_output,  \* run's git_diff_output
    fs,               \* the files on disk
    cands,            \* response.parsed.file_paths of phase 1
    judged,           \* the phase-2 judgments that have resolved, by candidate
    relevant_context, \* run's relevant_context
    analysis_context, \* the files get_diff_analysis put in its prompt
    plan,             \* diff_analysis.parsed
    i,                \* the loop index of apply_changes, from 1
    loc,              \* the locals of generate_patch and generate_file
    calls,            \* history variable: the stages and generators called
    context_reads,    \* history variable: the files the selection and analysis
                      \* stages have read (kept until the analysis returns)
    completion,       \* history variable: the candidates in the order their
                      \* judgments completed (kept until the analysis returns)
    reads,            \* history variable: the files apply_changes has read
    writes            \* history variable: the files written

cvars == <<cpc, changes, dry_run, sdk_files, sdk_files0, change_idx>>

tvars == <<tpc, disk, disk0, search_text, replacement_text, attempt_number,
           tool_result, patched_content, gpc, response_text, written_text,
           cpc, changes, dry_run, sdk_files, sdk_files0, change_idx>>

pvars == <<pc, args, git_diff_output, fs, cands, judged, relevant_context,
           analysis_context, plan, i, loc, calls, context_reads, completion,
           reads, writes>>

vars == <<tpc, disk, disk0, search_text, replacement_text, attempt_number,
          tool_result, patched_content, gpc, response_text, written_text,
          cpc, changes, dry_run, sdk_files, sdk_files0, change_idx,
          pc, args, git_diff_output, fs, cands, judged, relevant_context,
          analysis_context, plan, i, loc, calls, context_reads, completion,
          reads, writes>>

NoResult == Result(FALSE, "none", 0, 0, FALSE, FALSE, 0)

\* the attempt numbers drawn: the first, the cap and the one past the cap
AttemptNumbers == {1, MAX_ATTEMPTS, MAX_ATTEMPTS + 1}

NoPlan == [files_to_update |-> <<>>, implementation_details |-> <<>>,
           requires_creation |-> <<>>]

\* the locals before generate_patch or generate_file is entered
NoLocals ==
    [file_path |-> "", implementation_detail |-> <<>>, ai_file_path |-> <<>>,
     fallback |-> FALSE, existing_file_content |-> <<>>, contents |-> <<>>,
     patch_success |-> FALSE, stop_trying |-> FALSE, attempt_count |-> 0,
     final_search_text |-> <<>>, final_replacement_text |-> <<>>,
     requests |-> <<>>, tool_calls |-> 0]

\* the pipeline before a run, and while the validator is checked alone
PipelineIdle ==
    /\ pc = "idle"
    /\ args = [mode |-> "test", debug |-> FALSE, noai |-> FALSE]
    /\ git_diff_output = ""
    /\ fs = InitialFiles
    /\ cands = <<>>
    /\ judged = <<>>
    /\ relevant_context = <<>>
    /\ analysis_context = <<>>
    /\ plan = NoPlan
    /\ i = 0
    /\ loc = NoLocals
    /\ calls = <<>>
    /\ context_reads = {}
    /\ completion = <<>>
    /\ reads = {}
    /\ writes = <<>>

\* the files Antrhopic.apply_changes may be pointed at
ClientPaths == {"f1", "f2"}

\* Antrhopic.apply_changes not called
ClientIdle ==
    /\ cpc = "idle"
    /\ changes = <<>>
    /\ dry_run = TRUE
    /\ sdk_files = [f \in ClientPaths |-> NoFile]
    /\ sdk_files0 = [f \in ClientPaths |-> NoFile]
    /\ change_idx = 0

\* the validator while the pipeline runs
ValidatorIdle ==
    /\ tpc = "idle"
    /\ disk = <<>>
    /\ disk0 = <<>>
    /\ search_text = <<>>
    /\ replacement_text = <<>>
    /\ attempt_number = 0
    /\ tool_result = NoResult
    /\ patched_content = <<>>
    /\ gpc = "idle"
    /\ response_text = <<>>
    /\ written_text = <<>>
    /\ ClientIdle

(***************************************************************************)
(* PatchSpec: apply_patch, then the substitution, on drawn inputs.         *)
(***************************************************************************)
PatchInit ==
    /\ tpc = "call"
    /\ disk \in Str(MaxContent) \cup {NoFile, Unreadable}
    /\ disk0 = disk
    /\ search_text \in TextLists(MaxPairs, MaxPatchChars)
    /\ replacement_text \in TextLists(MaxPairs, MaxPatchChars - SumLen(search_text))
    /\ attempt_number \in AttemptNumbers
    /\ tool_result = NoResult
    /\ patched_content = <<>>
    /\ gpc = "idle"
    /\ response_text = <<>>
    /\ written_text = <<>>
    /\ ClientIdle
    /\ PipelineIdle

\* ai_updater.py:234-237: the tool call; apply_patch writes nothing
CallApplyPatch ==
    /\ tpc = "call"
    /\ tool_result' = ApplyPatch(disk, search_text, replacement_text, attempt_number)
    /\ tpc' = "returned"
    /\ UNCHANGED <<disk, disk0, search_text, replacement_text, attempt_number,
                   patched_content, gpc, response_text, written_text>>
    /\ UNCHANGED cvars
    /\ UNCHANGED pvars

\* ai_updater.py:264-267: the substitution after a validated proposal
CommitPatch ==
    /\ tpc = "returned"
    /\ tool_result.success
    /\ patched_content' = Substitute(disk, search_text, replacement_text)
    /\ tpc' = "patched"
    /\ UNCHANGED <<disk, disk0, search_text, replacement_text, attempt_number,
                   tool_result, gpc, response_text, written_text>>
    /\ UNCHANGED cvars
    /\ UNCHANGED pvars

PatchNext == CallApplyPatch \/ CommitPatch

PatchSpec == PatchInit /\ [][PatchNext]_vars

(***************************************************************************)
(* FileSpec: the post-processing of generate_file on drawn replies.        *)
(***************************************************************************)
\* a reply is drawn as at most MaxTokens pieces: a fence, a lone backtick, a
\* line break, a space or a letter
MaxTokens == 6
ResponseTokens == {Fence, <<Backtick>>, <<"\n">>, <<" ">>, <<"b">>}

RECURSIVE ResponseTexts(_)
ResponseTexts(n) ==
    IF n = 0 THEN {<<>>}
    ELSE LET shorter == ResponseTexts(n - 1)
         IN  shorter \cup {tok \o t : tok \in ResponseTokens, t \in shorter}

FileInit ==
    /\ gpc = "reply"
    /\ response_text \in ResponseTexts(MaxTokens)
    /\ written_text = <<>>
    /\ tpc = "idle"
    /\ disk = <<>>
    /\ disk0 = <<>>
    /\ search_text = <<>>
    /\ replacement_text = <<>>
    /\ attempt_number = 0
    /\ tool_result = NoResult
    /\ patched_content = <<>>
    /\ ClientIdle
    /\ PipelineIdle

\* ai_updater.py:292-295: the reply is post-processed and written
WriteGenerated ==
    /\ gpc = "reply"
    /\ written_text' = CleanResponse(response_text)
    /\ gpc' = "written"
    /\ UNCHANGED <<tpc, disk, disk0, search_text, replacement_text,
                   attempt_number, tool_result, patched_content, response_text>>
    /\ UNCHANGED cvars
    /\ UNCHANGED pvars

FileNext == WriteGenerated

FileSpec == FileInit /\ [][FileNext]_vars

(***************************************************************************)
(* ClientSpec: Antrhopic.apply_changes (clients/anthropic.py:393-429) on   *)
(* drawn changes.                                                          *)
(***************************************************************************)
MaxChanges == 2
Actions == {"create", "add_method", "modify", "delete"}
Codes == {<<"x">>, <<"y", "\n">>}
Changes == [file : ClientPaths, action : Actions, code : Codes]
ChangeLists == UNION {[1..n -> Changes] : n \in 0..MaxChanges}
ExistingContents == {NoFile, <<"a">>, <<"a", "\n">>}

\* apply_changes with the dry_run argument never looked at
ChangeResult_DryRunIgnored(existing, change, dry) ==
    IF change.action = "create" THEN change.code
    ELSE IF change.action = "add_method"
    THEN IF existing # NoFile
         THEN RStrip(existing) \o <<"\n", "\n">> \o change.code
         ELSE change.code
    ELSE existing

\* clients/anthropic.py:402-429: what one change makes of its target file
ChangeResult(existing, change, dry) ==
    IF change.action = "create"
    THEN IF ~dry THEN change.code ELSE existing
    ELSE IF change.action = "add_method"
    THEN IF ~dry
         THEN IF existing # NoFile
              THEN RStrip(existing) \o <<"\n", "\n">> \o change.code
              ELSE change.code
         ELSE existing
    ELSE existing

ClientInit ==
    /\ cpc = "apply"
    /\ changes \in ChangeLists
    /\ dry_run \in BOOLEAN
    /\ sdk_files \in [ClientPaths -> ExistingContents]
    /\ sdk_files0 = sdk_files
    /\ change_idx = 1
    /\ tpc = "idle"
    /\ disk = <<>>
    /\ disk0 = <<>>
    /\ search_text = <<>>
    /\ replacement_text = <<>>
    /\ attempt_number = 0
    /\ tool_result = NoResult
    /\ patched_content = <<>>
    /\ gpc = "idle"
    /\ response_text = <<>>
    /\ written_text = <<>>
    /\ PipelineIdle

\* clients/anthropic.py:395-429: one iteration of the for loop
AntrhopicApplyChange ==
    /\ cpc = "apply"
    /\ change_idx <= Len(changes)
    /\ LET change == changes[change_idx]
       IN  sdk_files' = [sdk_files EXCEPT ![change.file] =
                           ChangeResult(sdk_files[change.file], change, dry_run)]
    /\ change_idx' = change_idx + 1
    /\ UNCHANGED <<cpc, changes, dry_run, sdk_files0>>
    /\ UNCHANGED <<tpc, disk, disk0, search_text, replacement_text,
                   attempt_number, tool_result, patched_content, gpc,
                   response_text, written_text>>
    /\ UNCHANGED pvars

\* clients/anthropic.py:395: the for loop is over and apply_changes returns
AntrhopicApplyChangesReturns ==
    /\ cpc = "apply"
    /\ change_idx > Len(changes)
    /\ cpc' = "done"
    /\ UNCHANGED <<changes, dry_run, sdk_files, sdk_files0, change_idx>>
    /\ UNCHANGED <<tpc, disk, disk0, search_text, replacement_text,
                   attempt_number, tool_result, patched_content, gpc,
                   response_text, written_text>>
    /\ UNCHANGED pvars

ClientNext == AntrhopicApplyChange \/ AntrhopicApplyChangesReturns

ClientSpec == ClientInit /\ [][ClientNext]_vars

(***************************************************************************)
(* Spec: one run of the pipeline (AIUpdater.run).                          *)
(***************************************************************************)
Call(fn, idx, path, detail, fallback, existing) ==
    [fn |-> fn, idx |-> idx, file_path |-> path, implementation_detail |-> detail,
     fallback |-> fallback, existing_file_content |-> existing]

StageCall(fn) == Call(fn, 0, "", <<>>, FALSE, <<>>)

Read(path, by, idx) == [file_path |-> path, by |-> by, idx |-> idx]

\* a read by the selection or the analysis stage, with what it got
\* (ai_updater.py:115, 160)
ContextRead(path, by) ==
    [file_path |-> path, by |-> by, idx |-> 0,
     content |-> ReadFileContent(fs[SdkFile(path)])]

Write(file, content, by, idx, fallback) ==
    [file |-> file, content |-> content, by |-> by, idx |-> idx,
     fallback |-> fallback]

\* write_to_file of a debug file: in debug and test mode only
\* (ai_updater.py:107-111, 136-140, 177-181, 366-370)
DebugWrites(name) ==
    IF args.debug /\ args.mode = "test"
    THEN <<Write(DebugFile(name), DebugText, "debug", 0, FALSE)>>
    ELSE <<>>

FsAfterDebug(name) ==
    IF args.debug /\ args.mode = "test"
    THEN [fs EXCEPT ![DebugFile(name)] = DebugText]
    ELSE fs

Init ==
    /\ pc = "run"
    /\ args \in [mode : {"test", "work"}, debug : BOOLEAN, noai : BOOLEAN]
    /\ git_diff_output \in {"", "diff"}
    /\ fs = InitialFiles
    /\ cands = <<>>
    /\ judged = <<>>
    /\ relevant_context = <<>>
    /\ analysis_context = <<>>
    /\ plan = NoPlan
    /\ i = 0
    /\ loc = NoLocals
    /\ calls = <<>>
    /\ context_reads = {}
    /\ completion = <<>>
    /\ reads = {}
    /\ writes = <<>>
    /\ ValidatorIdle

\* ai_updater.py:362-370: run, from the diff to the first stage
Run ==
    /\ pc = "run"
    /\ IF NoChanges(git_diff_output)
       THEN /\ pc' = "done"
            /\ UNCHANGED <<fs, writes>>
       ELSE /\ pc' = "get_relevant_context"
            /\ fs' = FsAfterDebug("gitdifftest.txt")
            /\ writes' = writes \o DebugWrites("gitdifftest.txt")
    /\ UNCHANGED <<args, git_diff_output, cands, judged, relevant_context,
                   analysis_context, plan, i, loc, calls, context_reads,
                   completion, reads>>
    /\ UNCHANGED tvars

\* ai_updater.py:85-130: phase 1, then one judgment issued per candidate, each
\* with the content of its file
GetRelevantContext ==
    /\ pc = "get_relevant_context"
    /\ \E file_paths \in CandidateLists :
         /\ cands' = file_paths
         /\ context_reads' = context_reads \cup
              {ContextRead(file_paths[k], "get_relevant_context") :
                 k \in 1..Len(file_paths)}
    /\ calls' = Append(calls, StageCall("get_relevant_context"))
    /\ fs' = FsAfterDebug("getrelevantcontext_stage1.txt")
    /\ writes' = writes \o DebugWrites("getrelevantcontext_stage1.txt")
    /\ judged' = <<>>
    /\ completion' = <<>>
    /\ pc' = "gather"
    /\ UNCHANGED <<args, git_diff_output, relevant_context, analysis_context,
                   plan, i, loc, reads>>
    /\ UNCHANGED tvars

\* the judgments asyncio.gather still waits for
Pending == (1..Len(cands)) \ DOMAIN judged

\* ai_updater.py:120-131: one outstanding judgment resolves, in any order
JudgmentResolves ==
    /\ pc = "gather"
    /\ \E k \in Pending, decision \in Decisions :
         /\ judged' = [j \in DOMAIN judged \cup {k} |->
                         IF j = k THEN decision ELSE judged[j]]
         /\ completion' = Append(completion, k)
    /\ UNCHANGED <<pc, args, git_diff_output, fs, cands, relevant_context,
                   analysis_context, plan, i, loc, calls, context_reads, reads,
                   writes>>
    /\ UNCHANGED tvars

\* what stands for a judgment that raised an exception
Raised == [filename |-> "", inclusion |-> FALSE, raised |-> TRUE]

\* gather as it would be with return_exceptions=True: the exception is kept
\* as a result and the stage goes on
JudgmentFails_Tolerated ==
    /\ pc = "gather"
    /\ \E k \in Pending :
         /\ judged' = [j \in DOMAIN judged \cup {k} |->
                         IF j = k THEN Raised ELSE judged[j]]
         /\ completion' = Append(completion, k)
    /\ UNCHANGED <<pc, args, git_diff_output, fs, cands, relevant_context,
                   analysis_context, plan, i, loc, calls, context_reads, reads,
                   writes>>
    /\ UNCHANGED tvars

\* ai_updater.py:131: one outstanding judgment raises; asyncio.gather passes
\* the exception on to get_relevant_context and to run, which end there
JudgmentFails ==
    /\ pc = "gather"
    /\ \E k \in Pending :
         /\ judged' = [j \in DOMAIN judged \cup {k} |->
                         IF j = k THEN Raised ELSE judged[j]]
         /\ completion' = Append(completion, k)
    /\ pc' = "failed"
    /\ UNCHANGED <<args, git_diff_output, fs, cands, relevant_context,
                   analysis_context, plan, i, loc, calls, context_reads, reads,
                   writes>>
    /\ UNCHANGED tvars

\* the stage going on as soon as one judgment has resolved, the judgments
\* still outstanding taken as exclusions
GatherReturns_FirstCompleted ==
    /\ pc = "gather"
    /\ Pending # 1..Len(cands) \/ Len(cands) = 0
    /\ IF Len(cands) = 0
       THEN /\ pc' = "failed"
            /\ relevant_context' = <<>>
       ELSE /\ pc' = "get_diff_analysis"
            /\ relevant_context' =
                 [k \in 1..Len(cands) |->
                    IF k \in DOMAIN judged THEN judged[k]
                    ELSE [filename |-> cands[k], inclusion |-> FALSE]]
    /\ fs' = FsAfterDebug("getrelevantcontext_stage2.txt")
    /\ writes' = writes \o DebugWrites("getrelevantcontext_stage2.txt")
    /\ UNCHANGED <<args, git_diff_output, cands, judged, analysis_context,
                   plan, i, loc, calls, context_reads, completion, reads>>
    /\ UNCHANGED tvars

\* get_relevant_context returning an empty list when there is no candidate
GatherReturns_EmptyTolerated ==
    /\ pc = "gather"
    /\ Pending = {}
    /\ pc' = "get_diff_analysis"
    /\ relevant_context' = [k \in 1..Len(cands) |-> judged[k]]
    /\ fs' = FsAfterDebug("getrelevantcontext_stage2.txt")
    /\ writes' = writes \o DebugWrites("getrelevantcontext_stage2.txt")
    /\ UNCHANGED <<args, git_diff_output, cands, judged, analysis_context,
                   plan, i, loc, calls, context_reads, completion, reads>>
    /\ UNCHANGED tvars

\* the decisions returned in the order in which the judgments completed
GatherReturns_CompletionOrder ==
    /\ pc = "gather"
    /\ Pending = {}
    /\ IF Len(cands) = 0
       THEN /\ pc' = "failed"
            /\ relevant_context' = <<>>
       ELSE /\ pc' = "get_diff_analysis"
            /\ relevant_context' = [k \in 1..Len(cands) |-> judged[completion[k]]]
    /\ fs' = FsAfterDebug("getrelevantcontext_stage2.txt")
    /\ writes' = writes \o DebugWrites("getrelevantcontext_stage2.txt")
    /\ UNCHANGED <<args, git_diff_output, cands, judged, analysis_context,
                   plan, i, loc, calls, context_reads, completion, reads>>
    /\ UNCHANGED tvars

\* ai_updater.py:131-142: every judgment has resolved; file_analysis[0] raises
\* IndexError when there was no candidate
GatherReturns ==
    /\ pc = "gather"
    /\ Pending = {}
    /\ IF Len(cands) = 0
       THEN /\ pc' = "failed"
            /\ relevant_context' = <<>>
       ELSE /\ pc' = "get_diff_analysis"
            /\ relevant_context' = [k \in 1..Len(cands) |-> judged[k]]
    /\ fs' = FsAfterDebug("getrelevantcontext_stage2.txt")
    /\ writes' = writes \o DebugWrites("getrelevantcontext_stage2.txt")
    /\ UNCHANGED <<args, git_diff_output, cands, judged, analysis_context,
                   plan, i, loc, calls, context_reads, completion, reads>>
    /\ UNCHANGED tvars

\* the context built from every decision, the inclusion flag not looked at
Included_All(decisions) ==
    [k \in 1..Len(decisions) |-> decisions[k].filename]

\* the included decisions, in order
RECURSIVE Included(_)
Included(decisions) ==
    IF decisions = <<>> THEN <<>>
    ELSE IF Head(decisions).inclusion
         THEN <<Head(decisions).filename>> \o Included(Tail(decisions))
         ELSE Included(Tail(decisions))

\* ai_updater.py:155-173: get_diff_analysis reads the included files, builds
\* its prompt and calls the model
GetDiffAnalysis ==
    /\ pc = "get_diff_analysis"
    /\ analysis_context' = Included(relevant_context)
    /\ context_reads' = context_reads \cup
         {ContextRead(relevant_context[k].filename, "get_diff_analysis") :
            k \in {j \in 1..Len(relevant_context) : relevant_context[j].inclusion}}
    /\ calls' = Append(calls, StageCall("get_diff_analysis"))
    /\ pc' = "analysis_call"
    /\ UNCHANGED <<args, git_diff_output, fs, cands, judged, relevant_context,
                   plan, i, loc, completion, reads, writes>>
    /\ UNCHANGED tvars

\* run without the test of line 376: apply_changes is called in any case
DiffAnalysisReturns_IgnoresNoai ==
    /\ pc = "analysis_call"
    /\ \E parsed \in Plans : plan' = parsed
    /\ fs' = FsAfterDebug("getdiffanalysis.txt")
    /\ writes' = writes \o DebugWrites("getdiffanalysis.txt")
    /\ pc' = "apply_changes"
    /\ cands' = <<>>
    /\ judged' = <<>>
    /\ relevant_context' = <<>>
    /\ analysis_context' = <<>>
    /\ context_reads' = {}
    /\ completion' = <<>>
    /\ UNCHANGED <<args, git_diff_output, i, loc, calls, reads>>
    /\ UNCHANGED tvars

\* ai_updater.py:174-183 and 374-377: the analysis returns, and run goes on to
\* apply_changes unless noai is set.  The candidates, the decisions and the
\* prompt are read by nothing from here on: they are dropped.
DiffAnalysisReturns ==
    /\ pc = "analysis_call"
    /\ \E parsed \in Plans : plan' = parsed
    /\ fs' = FsAfterDebug("getdiffanalysis.txt")
    /\ writes' = writes \o DebugWrites("getdiffanalysis.txt")
    /\ pc' = IF args.noai THEN "done" ELSE "apply_changes"
    /\ cands' = <<>>
    /\ judged' = <<>>
    /\ relevant_context' = <<>>
    /\ analysis_context' = <<>>
    /\ context_reads' = {}
    /\ completion' = <<>>
    /\ UNCHANGED <<args, git_diff_output, i, loc, calls, reads>>
    /\ UNCHANGED tvars

\* ai_updater.py:313-319: the checks apply_changes starts with
ApplyChanges ==
    /\ pc = "apply_changes"
    /\ calls' = Append(calls, StageCall("apply_changes"))
    /\ IF ListsMismatch(plan) THEN pc' = "failed" /\ i' = i
       ELSE IF Len(plan.files_to_update) = 0 THEN pc' = "done" /\ i' = i
       ELSE pc' = "loop" /\ i' = 1
    /\ UNCHANGED <<args, git_diff_output, fs, cands, judged, relevant_context,
                   analysis_context, plan, loc, context_reads,
                   completion, reads, writes>>
    /\ UNCHANGED tvars

\* generate_patch starting every history with the first instruction of the plan
PatchLocals_FirstInstruction(file_path, detail, ai_file_path, existing) ==
    [NoLocals EXCEPT
       !.file_path = file_path,
       !.implementation_detail = Instruction(1),
       !.ai_file_path = ai_file_path,
       !.existing_file_content = existing,
       !.contents = <<[role |-> "user", part |-> "prompt",
                       implementation_detail |-> Instruction(1),
                       file_path |-> file_path,
                       existing_file_content |-> existing]>>]

\* ai_updater.py:194-205: generate_patch reads the file and starts its history
PatchLocals(file_path, detail, ai_file_path, existing) ==
    [NoLocals EXCEPT
       !.file_path = file_path,
       !.implementation_detail = detail,
       !.ai_file_path = ai_file_path,
       !.existing_file_content = existing,
       !.contents = <<[role |-> "user", part |-> "prompt",
                       implementation_detail |-> detail,
                       file_path |-> file_path,
                       existing_file_content |-> existing]>>]

\* ai_updater.py:274: generate_file is entered
FileLocals(file_path, detail, ai_file_path, fallback) ==
    [NoLocals EXCEPT
       !.file_path = file_path,
       !.implementation_detail = detail,
       !.ai_file_path = ai_file_path,
       !.fallback = fallback]

\* ai_updater.py:321-339: the loop of apply_changes reaches file i, or ends;
\* requires_creation[i] raises IndexError when that list is too short
ApplyChangesLoop ==
    /\ pc = "loop"
    /\ IF i > Len(plan.files_to_update)
       THEN /\ pc' = "done"
            /\ UNCHANGED <<loc, calls, reads>>
       ELSE IF i > Len(plan.requires_creation)
       THEN /\ pc' = "failed"
            /\ UNCHANGED <<loc, calls, reads>>
       ELSE LET file_path == plan.files_to_update[i]
                implementation_detail == plan.implementation_details[i]
                ai_file_path == AiFilePath(args.mode, file_path)
                existing == ReadFileContent(fs[SdkFile(file_path)])
            IN  IF Strategy(plan.requires_creation[i]) = "generate_file"
                THEN /\ pc' = "generate_file"
                     /\ loc' = FileLocals(file_path, implementation_detail,
                                          ai_file_path, FALSE)
                     /\ UNCHANGED <<calls, reads>>
                ELSE /\ pc' = "generate_patch"
                     /\ loc' = PatchLocals(file_path, implementation_detail,
                                           ai_file_path, existing)
                     /\ calls' = Append(calls,
                          Call("generate_patch", i, file_path,
                               implementation_detail, FALSE, existing))
                     /\ reads' = reads \cup {Read(file_path, "generate_patch", i)}
    /\ UNCHANGED <<args, git_diff_output, fs, cands, judged, relevant_context,
                   analysis_context, plan, i, context_reads,
                   completion, writes>>
    /\ UNCHANGED tvars

\* the handling of a reply with the history restarted at every retry: the
\* prompt, then the last proposal and its result alone
AfterReply_FreshHistory(l, reply, result) ==
    IF reply.kind = "no_candidates"
    THEN [l EXCEPT !.patch_success = FALSE, !.stop_trying = TRUE]
    ELSE IF reply.kind # "apply_patch"
    THEN [l EXCEPT !.contents = Append(@, [role |-> "model", reply |-> reply]),
                   !.patch_success = FALSE, !.stop_trying = TRUE]
    ELSE [l EXCEPT
            !.contents = <<l.contents[1], [role |-> "model", reply |-> reply],
                           [role |-> "user", response |-> result]>>,
            !.patch_success = result.success,
            !.stop_trying = result.stop_trying,
            !.final_search_text =
                IF result.success THEN reply.search_text ELSE @,
            !.final_replacement_text =
                IF result.success THEN reply.replacement_text ELSE @,
            !.tool_calls = @ + 1]

\* the handling of a reply with every proposal kept for the commit, the
\* failed ones as well
AfterReply_KeepsEveryProposal(l, reply, result) ==
    IF reply.kind = "no_candidates"
    THEN [l EXCEPT !.patch_success = FALSE, !.stop_trying = TRUE]
    ELSE IF reply.kind # "apply_patch"
    THEN [l EXCEPT !.contents = Append(@, [role |-> "model", reply |-> reply]),
                   !.patch_success = FALSE, !.stop_trying = TRUE]
    ELSE [l EXCEPT
            !.contents = @ \o <<[role |-> "model", reply |-> reply],
                                [role |-> "user", response |-> result]>>,
            !.patch_success = result.success,
            !.stop_trying = result.stop_trying,
            !.final_search_text = @ \o reply.search_text,
            !.final_replacement_text = @ \o reply.replacement_text,
            !.tool_calls = @ + 1]

\* the handling of a reply with stop_trying set after every tool call, a
\* successful one as well
AfterReply_AlwaysStops(l, reply, result) ==
    IF reply.kind = "no_candidates"
    THEN [l EXCEPT !.patch_success = FALSE, !.stop_trying = TRUE]
    ELSE IF reply.kind # "apply_patch"
    THEN [l EXCEPT !.contents = Append(@, [role |-> "model", reply |-> reply]),
                   !.patch_success = FALSE, !.stop_trying = TRUE]
    ELSE [l EXCEPT
            !.contents = @ \o <<[role |-> "model", reply |-> reply],
                                [role |-> "user", response |-> result]>>,
            !.patch_success = result.success,
            !.stop_trying = TRUE,
            !.final_search_text =
                IF result.success THEN reply.search_text ELSE @,
            !.final_replacement_text =
                IF result.success THEN reply.replacement_text ELSE @,
            !.tool_calls = @ + 1]

\* the handling of a reply with the malformed turns left to be retried
AfterReply_RetriesMalformed(l, reply, result) ==
    IF reply.kind = "no_candidates"
    THEN l
    ELSE IF reply.kind # "apply_patch"
    THEN [l EXCEPT !.contents = Append(@, [role |-> "model", reply |-> reply])]
    ELSE [l EXCEPT
            !.contents = @ \o <<[role |-> "model", reply |-> reply],
                                [role |-> "user", response |-> result]>>,
            !.patch_success = result.success,
            !.stop_trying = result.stop_trying,
            !.final_search_text =
                IF result.success THEN reply.search_text ELSE @,
            !.final_replacement_text =
                IF result.success THEN reply.replacement_text ELSE @,
            !.tool_calls = @ + 1]

\* ai_updater.py:227-262: what one reply does to the locals of the loop
AfterReply(l, reply, result) ==
    IF reply.kind = "no_candidates"
    THEN [l EXCEPT !.patch_success = FALSE, !.stop_trying = TRUE]
    ELSE IF reply.kind # "apply_patch"
    THEN [l EXCEPT !.contents = Append(@, [role |-> "model", reply |-> reply]),
                   !.patch_success = FALSE, !.stop_trying = TRUE]
    ELSE [l EXCEPT
            !.contents = @ \o <<[role |-> "model", reply |-> reply],
                                [role |-> "user", response |-> result]>>,
            !.patch_success = result.success,
            !.stop_trying = result.stop_trying,
            !.final_search_text =
                IF result.success THEN reply.search_text ELSE @,
            !.final_replacement_text =
                IF result.success THEN reply.replacement_text ELSE @,
            !.tool_calls = @ + 1]

\* ai_updater.py:208-262: one iteration of the loop of generate_patch: the
\* draft request, the reply, the tool call and the feedback
GeneratePatchAttempt ==
    /\ pc = "generate_patch"
    /\ LoopRuns(loc.patch_success, loc.stop_trying)
    /\ \E reply \in DraftReplies :
         LET attempt_count == loc.attempt_count + 1
             result == ApplyPatch(fs[SdkFile(loc.file_path)], reply.search_text,
                                  reply.replacement_text, attempt_count)
             requested == [loc EXCEPT !.attempt_count = attempt_count,
                                      !.requests = Append(@, loc.contents)]
         IN  /\ loc' = AfterReply(requested, reply, result)
             /\ reads' = IF reply.kind = "apply_patch" /\ result.read
                         THEN reads \cup {Read(loc.file_path, "apply_patch", i)}
                         ELSE reads
    /\ UNCHANGED <<pc, args, git_diff_output, fs, cands, judged,
                   relevant_context, analysis_context, plan, i, calls,
                   context_reads, completion, writes>>
    /\ UNCHANGED tvars

\* generate_patch as it would be without line 272: a failed loop just returns
GeneratePatchFinish_NoFallback ==
    /\ pc = "generate_patch"
    /\ ~LoopRuns(loc.patch_success, loc.stop_trying)
    /\ IF loc.patch_success
       THEN LET content == Substitute(loc.existing_file_content,
                                      loc.final_search_text,
                                      loc.final_replacement_text)
            IN  /\ fs' = [fs EXCEPT ![loc.ai_file_path] = content]
                /\ writes' = Append(writes,
                     Write(loc.ai_file_path, content, "generate_patch", i, FALSE))
       ELSE UNCHANGED <<fs, writes>>
    /\ pc' = "loop"
    /\ i' = i + 1
    /\ loc' = NoLocals
    /\ UNCHANGED <<args, git_diff_output, cands, judged, relevant_context,
                   analysis_context, plan, calls, context_reads,
                   completion, reads>>
    /\ UNCHANGED tvars

\* generate_patch with the call of line 272 moved out of the else branch: the
\* file is regenerated after a successful patch as well
GeneratePatchFinish_AlsoRegenerates ==
    /\ pc = "generate_patch"
    /\ ~LoopRuns(loc.patch_success, loc.stop_trying)
    /\ IF loc.patch_success
       THEN LET content == Substitute(loc.existing_file_content,
                                      loc.final_search_text,
                                      loc.final_replacement_text)
            IN  /\ fs' = [fs EXCEPT ![loc.ai_file_path] = content]
                /\ writes' = Append(writes,
                     Write(loc.ai_file_path, content, "generate_patch", i, FALSE))
       ELSE UNCHANGED <<fs, writes>>
    /\ pc' = "generate_file"
    /\ loc' = [loc EXCEPT !.fallback = TRUE]
    /\ UNCHANGED <<args, git_diff_output, cands, judged, relevant_context,
                   analysis_context, plan, i, calls, context_reads,
                   completion, reads>>
    /\ UNCHANGED tvars

\* generate_patch truncating the output file before it falls back
GeneratePatchFinish_WritesBeforeFallback ==
    /\ pc = "generate_patch"
    /\ ~LoopRuns(loc.patch_success, loc.stop_trying)
    /\ IF loc.patch_success
       THEN LET content == Substitute(loc.existing_file_content,
                                      loc.final_search_text,
                                      loc.final_replacement_text)
            IN  /\ fs' = [fs EXCEPT ![loc.ai_file_path] = content]
                /\ writes' = Append(writes,
                     Write(loc.ai_file_path, content, "generate_patch", i, FALSE))
                /\ pc' = "loop"
                /\ i' = i + 1
                /\ loc' = NoLocals
       ELSE /\ pc' = "generate_file"
            /\ loc' = [loc EXCEPT !.fallback = TRUE]
            /\ fs' = [fs EXCEPT ![loc.ai_file_path] = <<>>]
            /\ writes' = Append(writes,
                 Write(loc.ai_file_path, <<>>, "generate_patch", i, FALSE))
            /\ UNCHANGED i
    /\ UNCHANGED <<args, git_diff_output, cands, judged, relevant_context,
                   analysis_context, plan, calls, context_reads,
                   completion, reads>>
    /\ UNCHANGED tvars

\* ai_updater.py:264-272: after the loop, the patched content is written and
\* generate_patch returns (its locals are gone), or generate_file is called as
\* the fallback
GeneratePatchFinish ==
    /\ pc = "generate_patch"
    /\ ~LoopRuns(loc.patch_success, loc.stop_trying)
    /\ IF loc.patch_success
       THEN LET content == Substitute(loc.existing_file_content,
                                      loc.final_search_text,
                                      loc.final_replacement_text)
            IN  /\ fs' = [fs EXCEPT ![loc.ai_file_path] = content]
                /\ writes' = Append(writes,
                     Write(loc.ai_file_path, content, "generate_patch", i, FALSE))
                /\ pc' = "loop"
                /\ i' = i + 1
                /\ loc' = NoLocals
       ELSE /\ pc' = "generate_file"
            /\ loc' = [loc EXCEPT !.fallback = TRUE]
            /\ UNCHANGED <<fs, writes, i>>
    /\ UNCHANGED <<args, git_diff_output, cands, judged, relevant_context,
                   analysis_context, plan, calls, context_reads,
                   completion, reads>>
    /\ UNCHANGED tvars

\* ai_updater.py:274-296: generate_file: the prompt, the reply, the
\* post-processing and the write; then it, and generate_patch when that called
\* it, return
GenerateFile ==
    /\ pc = "generate_file"
    /\ LET existing == IF loc.fallback
                       THEN ReadFileContent(fs[SdkFile(loc.file_path)])
                       ELSE DoesNotExistMessage
       IN  /\ calls' = Append(calls,
                Call("generate_file", i, loc.file_path,
                     loc.implementation_detail, loc.fallback, existing))
           /\ reads' = IF loc.fallback
                       THEN reads \cup {Read(loc.file_path, "generate_file", i)}
                       ELSE reads
    /\ \E text \in GenTexts :
         /\ fs' = [fs EXCEPT ![loc.ai_file_path] = CleanResponse(text)]
         /\ writes' = Append(writes,
              Write(loc.ai_file_path, CleanResponse(text), "generate_file", i,
                    loc.fallback))
    /\ pc' = "loop"
    /\ i' = i + 1
    /\ loc' = NoLocals
    /\ UNCHANGED <<args, git_diff_output, cands, judged, relevant_context,
                   analysis_context, plan, context_reads, completion>>
    /\ UNCHANGED tvars

Next ==
    \/ Run
    \/ GetRelevantContext
    \/ JudgmentResolves
    \/ JudgmentFails
    \/ GatherReturns
    \/ GetDiffAnalysis
    \/ DiffAnalysisReturns
    \/ ApplyChanges
    \/ ApplyChangesLoop
    \/ GeneratePatchAttempt
    \/ GeneratePatchFinish
    \/ GenerateFile

Spec == Init /\ [][Next]_vars

\* every call of the language model returns and the run is one sequential
\* task, so a run that can take a step takes one
FairSpec == Spec /\ WF_vars(Next)

(***************************************************************************)
(* Claims about apply_patch and the substitution, under PatchSpec.         *)
(***************************************************************************)
\* the call has returned
Returned == tpc \in {"returned", "patched"}

\* pair j of the proposal passes apply_patch's checks on the file
PairValid(j) == search_text[j] # <<>> /\ StrCount(disk0, search_text[j]) = 1

\* the lists are of one length, the file is read, and every pair but k passes
OthersValid(k) ==
    /\ IsText(disk0)
    /\ Len(search_text) = Len(replacement_text)
    /\ k \in 1..Len(search_text)
    /\ \A j \in 1..Len(search_text) : j # k => PairValid(j)

\* C5 (as claimed): apply_patch reports success if and only if the lists have
\* equal length, no search_text is empty and every search_text matches at
\* exactly one position of the file content, overlapping matches counted.
C5_SuccessIffOneMatchPosition ==
    (Returned /\ IsText(disk0)) =>
        (tool_result.success <=>
            /\ Len(search_text) = Len(replacement_text)
            /\ \A j \in 1..Len(search_text) :
                  /\ search_text[j] # <<>>
                  /\ Cardinality(Positions(disk0, search_text[j])) = 1)

\* pair k's search_text occurs zero times, every other pair is valid
ZeroOccurrences(k) ==
    /\ OthersValid(k)
    /\ search_text[k] # <<>>
    /\ StrCount(disk0, search_text[k]) = 0

\* C6 (as claimed): one search_text occurring zero times always yields a
\* failure that names that pair with the not-found reason, the file unchanged.
C6_Original ==
    \A k \in 1..Len(search_text) :
        (Returned /\ ZeroOccurrences(k)) =>
            /\ ~tool_result.success
            /\ tool_result.kind = "notfound"
            /\ tool_result.patch = k
            /\ disk = disk0

\* C6 (amended): one search_text occurring zero times yields a failure and
\* leaves the file unchanged; at attempt numbers up to MAX_ATTEMPTS the
\* failure names that pair with the not-found reason, past MAX_ATTEMPTS it is
\* the stop signal, which names no pair.
C6_ZeroOccurrencesCited ==
    \A k \in 1..Len(search_text) :
        (Returned /\ ZeroOccurrences(k)) =>
            /\ ~tool_result.success
            /\ disk = disk0
            /\ attempt_number <= MAX_ATTEMPTS =>
                  /\ tool_result.kind = "notfound"
                  /\ tool_result.patch = k
                  /\ ~tool_result.stop_trying
            /\ attempt_number > MAX_ATTEMPTS =>
                  /\ tool_result.kind = "stop"
                  /\ tool_result.patch = 0
                  /\ tool_result.stop_trying

\* C6 witness: a returned call, within the cap, whose second pair is the one
\* that is not found
C6_Witness ==
    /\ tpc = "returned"
    /\ Len(search_text) = 2
    /\ ZeroOccurrences(2)
    /\ attempt_number <= MAX_ATTEMPTS
    /\ tool_result.patch = 2

\* pair k's search_text is counted more than once, every other pair is valid
ManyOccurrences(k) ==
    /\ OthersValid(k)
    /\ search_text[k] # <<>>
    /\ StrCount(disk0, search_text[k]) > 1

C8_Original ==
    (Returned /\ Len(search_text) # Len(replacement_text)) =>
        /\ ~tool_result.success
        /\ tool_result.kind = "mismatch"
        /\ ~tool_result.read
        /\ tool_result.counted = 0

\* C8 (amended): lists of different lengths fail before the file is read or
\* any occurrence counted, whatever the pairs are; the error is the
\* length-mismatch error at attempt numbers up to MAX_ATTEMPTS and the stop
\* signal past MAX_ATTEMPTS.
C8_MismatchBeforeCounting ==
    (Returned /\ Len(search_text) # Len(replacement_text)) =>
        /\ ~tool_result.success
        /\ ~tool_result.read
        /\ tool_result.counted = 0
        /\ attempt_number <= MAX_ATTEMPTS =>
              tool_result.kind = "mismatch" /\ ~tool_result.stop_trying
        /\ attempt_number > MAX_ATTEMPTS =>
              tool_result.kind = "stop" /\ tool_result.stop_trying

\* C8 witness: a returned call on a readable file with two search texts, the
\* first of them not in the file, and one replacement
C8_Witness ==
    /\ tpc = "returned"
    /\ IsText(disk0)
    /\ Len(search_text) = 2
    /\ Len(replacement_text) = 1
    /\ StrCount(disk0, search_text[1]) = 0
    /\ tool_result.kind = "mismatch"

\* the one region of the file that search_text[j] matches
Region(j) ==
    LET p == CHOOSE q \in Positions(disk0, search_text[j]) : TRUE
    IN  p..(p + Len(search_text[j]) - 1)

\* every search_text matches at exactly one position of the file and no two
\* matched regions overlap
DisjointUniqueMatches ==
    /\ IsText(disk0)
    /\ \A j \in 1..Len(search_text) :
          Cardinality(Positions(disk0, search_text[j])) = 1
    /\ \A j, k \in 1..Len(search_text) :
          j # k => Region(j) \cap Region(k) = {}

\* what C9 says of the patched content
ReplacementsPresentAndLengthAdds ==
    /\ \A j \in 1..Len(replacement_text) :
          Contains(patched_content, replacement_text[j])
    /\ Len(patched_content) =
          Len(disk0) + SumLen(replacement_text) - SumLen(search_text)

\* C9 (as claimed): for every validated proposal whose search texts match
\* once each at non-overlapping places, the substituted content contains every
\* replacement_text and its length is len(C) plus the sum of the differences.
C9_Original ==
    (tpc = "patched" /\ DisjointUniqueMatches) => ReplacementsPresentAndLengthAdds

\* the call got as far as the validation loop with no empty search text
Validated ==
    /\ Returned
    /\ IsText(disk0)
    /\ Len(search_text) = Len(replacement_text)
    /\ \A j \in 1..Len(search_text) : search_text[j] # <<>>

\* the pairs the original content does not hold exactly once
BadInOriginal == {j \in 1..Len(search_text) : StrCount(disk0, search_text[j]) # 1}

\* the content the first k pairs would give, applied one after the other
RECURSIVE WithPairsApplied(_)
WithPairsApplied(k) ==
    IF k = 0 THEN disk0
    ELSE StrReplace(WithPairsApplied(k - 1), search_text[k], replacement_text[k])

\* C23: apply_patch judges every pair against the original content: the call
\* succeeds exactly when every search_text is counted once in the original,
\* and otherwise the failure is for the first pair the original does not hold
\* once, with the count taken in the original, whatever the pairs before it
\* would have made of the content.
C23_ValidatedAgainstOriginal ==
    Validated =>
        /\ tool_result.success <=> BadInOriginal = {}
        /\ (BadInOriginal # {} /\ attempt_number <= MAX_ATTEMPTS) =>
             LET k == CHOOSE j \in BadInOriginal :
                         \A m \in BadInOriginal : j <= m
             IN  /\ tool_result.patch = k
                 /\ tool_result.count =
                      IF tool_result.kind = "multiple"
                      THEN StrCount(disk0, search_text[k]) ELSE 0
                 /\ tool_result.kind = "notfound"
                      <=> StrCount(disk0, search_text[k]) = 0

\* C23 witness: the second search text is not in the original and would
\* occur exactly once after the first pair is applied; the call was rejected
\* for the second pair
C23_Witness ==
    /\ Validated
    /\ Len(search_text) = 2
    /\ StrCount(disk0, search_text[1]) = 1
    /\ StrCount(disk0, search_text[2]) = 0
    /\ StrCount(WithPairsApplied(1), search_text[2]) = 1
    /\ ~tool_result.success
    /\ tool_result.kind = "notfound"
    /\ tool_result.patch = 2

\* pair k's search_text is empty, every other pair is valid
EmptySearch(k) == OthersValid(k) /\ search_text[k] = <<>>

\* C28 (as claimed): a proposal with an empty search_text, its lists of one
\* length and its other pairs valid, always yields a failure that names that
\* pair.
C28_Original ==
    \A k \in 1..Len(search_text) :
        (Returned /\ EmptySearch(k)) =>
            /\ ~tool_result.success
            /\ tool_result.kind = "empty"
            /\ tool_result.patch = k

\* C28 (amended): a proposal with an empty search_text, its lists of one
\* length and its other pairs valid, is rejected; at attempt numbers up to
\* MAX_ATTEMPTS the failure names that pair as having an empty search text,
\* past MAX_ATTEMPTS it is the stop signal, which names no pair.
C28_EmptySearchRejected ==
    \A k \in 1..Len(search_text) :
        (Returned /\ EmptySearch(k)) =>
            /\ ~tool_result.success
            /\ attempt_number <= MAX_ATTEMPTS =>
                  /\ tool_result.kind = "empty"
                  /\ tool_result.patch = k
                  /\ ~tool_result.stop_trying
            /\ attempt_number > MAX_ATTEMPTS =>
                  /\ tool_result.kind = "stop"
                  /\ tool_result.patch = 0
                  /\ tool_result.stop_trying

\* C28 witness: a returned call, within the cap, whose second search text is
\* empty and whose first is valid
C28_Witness ==
    /\ tpc = "returned"
    /\ Len(search_text) = 2
    /\ EmptySearch(2)
    /\ attempt_number <= MAX_ATTEMPTS
    /\ tool_result.kind = "empty"
    /\ tool_result.patch = 2

\* the messages of the six failure rules
FailureKinds ==
    {"mismatch", "nofile", "readerror", "empty", "notfound", "multiple"}

\* C29: apply_patch returns the stop signal exactly when the call fails at
\* an attempt number greater than MAX_ATTEMPTS; a failure at an attempt
\* number up to MAX_ATTEMPTS carries the message of its rule and no stop
\* signal, and a success carries none, at any attempt number.
C29_StopExactlyPastCap ==
    Returned =>
        /\ tool_result.stop_trying <=>
             (~tool_result.success /\ attempt_number > MAX_ATTEMPTS)
        /\ tool_result.stop_trying <=> tool_result.kind = "stop"
        /\ (~tool_result.success /\ attempt_number <= MAX_ATTEMPTS) =>
             tool_result.kind \in FailureKinds
        /\ tool_result.success => tool_result.kind = "ok"

\* C29 witness: a call past the cap on an unreadable file has returned the
\* stop signal
C29_Witness ==
    /\ tpc = "returned"
    /\ disk0 = Unreadable
    /\ attempt_number = MAX_ATTEMPTS + 1
    /\ Len(search_text) = Len(replacement_text)
    /\ tool_result.stop_trying

(***************************************************************************)
(* Claims about the post-processing of generate_file, under FileSpec.      *)
(***************************************************************************)
\* the reply without the white space around it
NonBlank(text) == {q \in 1..Len(text) : text[q] \notin Whitespace}

Trimmed(text) ==
    IF NonBlank(text) = {} THEN <<>>
    ELSE SubSeq(text,
                CHOOSE q \in NonBlank(text) : \A r \in NonBlank(text) : q <= r,
                CHOOSE q \in NonBlank(text) : \A r \in NonBlank(text) : q >= r)

\* t begins with three backticks and ends with three backticks
Fenced(t) ==
    /\ Len(t) >= 3
    /\ \A q \in 1..3 : t[q] = Backtick /\ t[Len(t) - q + 1] = Backtick

LineBreaks(t) == {q \in 1..Len(t) : t[q] = "\n"}

\* what lies between the first line and the last line of t
BetweenFirstAndLast(t) ==
    IF Cardinality(LineBreaks(t)) < 2 THEN <<>>
    ELSE SubSeq(t,
                (CHOOSE q \in LineBreaks(t) : \A r \in LineBreaks(t) : q <= r) + 1,
                (CHOOSE q \in LineBreaks(t) : \A r \in LineBreaks(t) : q >= r) - 1)

\* C30: generate_file writes the trimmed reply as it is, unless the trimmed
\* reply begins and ends with a fence: then it writes the lines between the
\* first line and the last one, ended by a line break, and nothing else.
C30_FenceStrippedOrUnchanged ==
    gpc = "written" =>
        written_text = IF Fenced(Trimmed(response_text))
                       THEN BetweenFirstAndLast(Trimmed(response_text)) \o <<"\n">>
                       ELSE Trimmed(response_text)

\* C30 witness: a reply with white space around a fenced line has been
\* written as that line
C30_Witness ==
    /\ gpc = "written"
    /\ response_text = Fence \o <<"\n", "b", "\n">> \o Fence \o <<"\n">>
    /\ written_text = <<"b", "\n">>

(***************************************************************************)
(* Claims about the pipeline, under Spec and FairSpec.                     *)
(***************************************************************************)
\* file k of the plan is one apply_changes gets to, with a flag
Planned(k) ==
    /\ k \in 1..Len(plan.files_to_update)
    /\ k <= Len(plan.requires_creation)
    /\ k <= Len(plan.implementation_details)

\* the patch loop has been entered for file k
PatchStarted(k) == pc = "generate_patch" /\ i = k

\* file k has its output written: the patched content, or the content that
\* generate_file produced as the fallback for the same path and instruction
Settled(k) ==
    /\ Planned(k)
    /\ \E n \in 1..Len(writes) :
         /\ writes[n].idx = k
         /\ writes[n].file = AiFilePath(args.mode, plan.files_to_update[k])
         /\ \/ writes[n].by = "generate_patch"
            \/ /\ writes[n].by = "generate_file"
               /\ writes[n].fallback
               /\ \E c \in 1..Len(calls) :
                    /\ calls[c].fn = "generate_file"
                    /\ calls[c].idx = k
                    /\ calls[c].fallback
                    /\ calls[c].file_path = plan.files_to_update[k]
                    /\ calls[c].implementation_detail =
                         plan.implementation_details[k]

\* C1: every instruction with requires_creation = false whose patch loop is
\* entered ends with its output file written, whatever the model replies: by
\* the patch, or else by generate_file called with fallback = True for the
\* same path and the same instruction text.
C1_PatchFailureFallsBack ==
    \A k \in 1..MaxFiles : PatchStarted(k) ~> Settled(k)

\* C1 witness: the second file of a plan was written by the fallback
C1_Witness ==
    /\ Settled(2)
    /\ ~plan.requires_creation[2]
    /\ \E n \in 1..Len(writes) : writes[n].idx = 2 /\ writes[n].fallback

\* the entries of the history that are results of apply_patch
ToolResults(contents) ==
    {contents[n].response : n \in {m \in 1..Len(contents) :
                                     "response" \in DOMAIN contents[m]}}

\* every attempt made so far proposed a patch, and every proposal failed
EveryProposalFailed ==
    /\ pc \in {"generate_patch", "generate_file"}
    /\ loc.attempt_count >= 1
    /\ loc.tool_calls = loc.attempt_count
    /\ \A r \in ToolResults(loc.contents) : ~r.success

\* C2 (as claimed): a loop in which every proposal fails validation makes
\* exactly MAX_ATTEMPTS = 5 attempts, never a sixth draft request or a sixth
\* call of apply_patch, and then falls back.
C2_NoSixthAttempt ==
    EveryProposalFailed =>
        /\ loc.attempt_count <= MAX_ATTEMPTS
        /\ loc.tool_calls <= MAX_ATTEMPTS
        /\ Len(loc.requests) <= MAX_ATTEMPTS
        /\ pc = "generate_file" =>
             loc.attempt_count = MAX_ATTEMPTS /\ loc.fallback

\* C3: with an empty diff the run ends without a stage called, a file read
\* or a file written, debug files included.
C3_EmptyDiffNoEffects ==
    git_diff_output = "" =>
        /\ pc \in {"run", "done"}
        /\ calls = <<>>
        /\ writes = <<>>
        /\ reads = {}
        /\ context_reads = {}
        /\ fs = InitialFiles
        /\ loc = NoLocals
        /\ plan = NoPlan

\* C3 witness: a run in debug and test mode has ended on an empty diff
C3_Witness ==
    /\ git_diff_output = ""
    /\ pc = "done"
    /\ args.debug
    /\ args.mode = "test"

\* file k of the plan is flagged requires_creation
Creation(k) == Planned(k) /\ plan.requires_creation[k]

\* C4: a file flagged requires_creation goes to generate_file with
\* fallback = False: the patch loop is never entered for it, nothing is read
\* for it, and the request carries its instruction text and the message that
\* the file does not exist, whether or not the file exists.
C4_CreationGoesToGenerateFile ==
    /\ \A c \in 1..Len(calls) :
         Creation(calls[c].idx) =>
            /\ calls[c].fn = "generate_file"
            /\ ~calls[c].fallback
            /\ calls[c].file_path = plan.files_to_update[calls[c].idx]
            /\ calls[c].implementation_detail =
                 plan.implementation_details[calls[c].idx]
            /\ calls[c].existing_file_content = DoesNotExistMessage
    /\ \A r \in reads : ~Creation(r.idx)
    /\ (pc \in {"generate_patch", "generate_file"} /\ Creation(i)) =>
         /\ pc = "generate_file"
         /\ ~loc.fallback
         /\ loc.attempt_count = 0
         /\ loc.contents = <<>>
         /\ loc.existing_file_content = <<>>
    /\ \A n \in 1..Len(writes) :
         Creation(writes[n].idx) =>
            writes[n].by = "generate_file" /\ ~writes[n].fallback

\* C4 witness: generate_file was called for p1, which exists, flagged for
\* creation, and its output is written
C4_Witness ==
    /\ IsText(InitialFiles[SdkFile("p1")])
    /\ \E c \in 1..Len(calls) :
         /\ calls[c].fn = "generate_file"
         /\ calls[c].file_path = "p1"
         /\ Creation(calls[c].idx)
         /\ \E n \in 1..Len(writes) : writes[n].idx = calls[c].idx

\* C10 (as claimed): get_relevant_context returns one decision per candidate,
\* each naming the candidate it was issued for, so that the paths the
\* decisions name are the candidate paths, none twice and none missing.
C10_DecisionsNameTheirCandidates ==
    pc = "get_diff_analysis" =>
        /\ Len(relevant_context) = Len(cands)
        /\ \A k \in 1..Len(cands) : relevant_context[k].filename = cands[k]
        /\ {relevant_context[k].filename : k \in 1..Len(relevant_context)}
             = {cands[k] : k \in 1..Len(cands)}
        /\ \A j, k \in 1..Len(relevant_context) :
             j # k => relevant_context[j].filename # relevant_context[k].filename

\* the plan has two instructions for distinct paths, one creation, one patch
TwoDistinctInstructions ==
    /\ Len(plan.files_to_update) = 2
    /\ Len(plan.implementation_details) = 2
    /\ Len(plan.requires_creation) = 2
    /\ plan.files_to_update[1] # plan.files_to_update[2]
    /\ plan.requires_creation[1] # plan.requires_creation[2]

\* what reading file k of the plan gives at the start of the run
OwnContent(k) == ReadFileContent(InitialFiles[SdkFile(plan.files_to_update[k])])

\* the first message of the patch conversation for file k
OwnPrompt(k) ==
    [role |-> "user", part |-> "prompt",
     implementation_detail |-> plan.implementation_details[k],
     file_path |-> plan.files_to_update[k],
     existing_file_content |-> OwnContent(k)]

\* a conversation history for file k: its own prompt, then replies and results
OwnHistory(contents, k) ==
    /\ Len(contents) >= 1
    /\ contents[1] = OwnPrompt(k)
    /\ \A n \in 2..Len(contents) : "part" \notin DOMAIN contents[n]

\* C11: with two instructions for distinct paths, one creation and one patch,
\* every request made for instruction k carries files_to_update[k],
\* implementation_details[k] and (for the patch) the content of that file
\* only, the patch history starts with that file's prompt alone, every output
\* goes to the instruction's own path with content made from its own data,
\* and when apply_changes has run to its end both outputs are written.
C11_InstructionsDoNotMix ==
    TwoDistinctInstructions =>
        /\ pc # "failed"
        /\ \A c \in 1..Len(calls) :
             calls[c].idx \in {1, 2} =>
                LET k == calls[c].idx IN
                /\ calls[c].file_path = plan.files_to_update[k]
                /\ calls[c].implementation_detail = plan.implementation_details[k]
                /\ calls[c].existing_file_content =
                     IF calls[c].fn = "generate_file" /\ ~calls[c].fallback
                     THEN DoesNotExistMessage ELSE OwnContent(k)
        /\ pc = "generate_patch" =>
             /\ loc.file_path = plan.files_to_update[i]
             /\ loc.implementation_detail = plan.implementation_details[i]
             /\ loc.existing_file_content = OwnContent(i)
             /\ OwnHistory(loc.contents, i)
             /\ loc.attempt_count = 0 => loc.contents = <<OwnPrompt(i)>>
             /\ \A n \in 1..Len(loc.requests) : OwnHistory(loc.requests[n], i)
        /\ \A n \in 1..Len(writes) :
             writes[n].idx \in {1, 2} =>
                LET k == writes[n].idx IN
                /\ writes[n].file = AiFilePath(args.mode, plan.files_to_update[k])
                /\ writes[n].by = "generate_patch" =>
                     \E reply \in DraftReplies :
                        writes[n].content =
                          Substitute(OwnContent(k), reply.search_text,
                                     reply.replacement_text)
                /\ writes[n].by = "generate_file" =>
                     writes[n].content \in {CleanResponse(t) : t \in GenTexts}
        /\ (pc = "done" /\ ~args.noai) =>
             \A k \in {1, 2} :
                Cardinality({n \in 1..Len(writes) : writes[n].idx = k}) = 1

\* C11 witness: a run in work mode has ended with the first file created and
\* the second patched
C11_Witness ==
    /\ TwoDistinctInstructions
    /\ pc = "done"
    /\ args.mode = "work"
    /\ plan.requires_creation[1]
    /\ \E n \in 1..Len(writes) :
         writes[n].idx = 1 /\ writes[n].by = "generate_file"
    /\ \E n \in 1..Len(writes) :
         writes[n].idx = 2 /\ writes[n].by = "generate_patch"

\* apply_changes has been called in this run
ApplyChangesCalled == \E c \in 1..Len(calls) : calls[c].fn = "apply_changes"

\* the three lists of the plan are not all of one length
ListsDiffer ==
    \/ Len(plan.files_to_update) # Len(plan.implementation_details)
    \/ Len(plan.files_to_update) # Len(plan.requires_creation)

\* C12 (as claimed): whenever the three lists of the plan are not all of one
\* length, apply_changes aborts the run before any instruction is processed
\* and before any file is written, for a flag list shorter or longer than the
\* file list as for a file/instruction mismatch.
C12_AnyMismatchAborts ==
    (ListsDiffer /\ ApplyChangesCalled) =>
        /\ pc \in {"loop", "failed"}
        /\ pc = "loop" => i = 1
        /\ loc = NoLocals
        /\ \A c \in 1..Len(calls) : calls[c].idx = 0
        /\ \A n \in 1..Len(writes) : writes[n].idx = 0
        /\ reads = {}

\* C13: when the analysis plans zero files (all lists empty), apply_changes
\* returns normally: the run is not failed, no generator is called, nothing
\* is read and no file but the debug files is written.
C13_ZeroFilesReturnsNormally ==
    (plan = NoPlan /\ ApplyChangesCalled) =>
        /\ pc = "done"
        /\ loc = NoLocals
        /\ Len(calls) = 3
        /\ calls[3].fn = "apply_changes"
        /\ reads = {}
        /\ \A n \in 1..Len(writes) : writes[n].by = "debug"
        /\ \A p \in Paths :
             /\ fs[SdkFile(p)] = InitialFiles[SdkFile(p)]
             /\ fs[GenFile(p)] = InitialFiles[GenFile(p)]

\* C13 witness: apply_changes was called with an empty plan and the run ended
C13_Witness ==
    /\ plan = NoPlan
    /\ ApplyChangesCalled
    /\ pc = "done"
    /\ ~args.noai

\* the last turn of the patch loop was malformed: a draft was requested and
\* apply_patch was not called for it
MalformedTurn == pc = "generate_patch" /\ loc.tool_calls < loc.attempt_count

\* C14: a malformed model turn, at any attempt number, ends the patch loop
\* at once: the loop is stopped without success, that turn was the last draft
\* request and no apply_patch call followed it, and the one step the run can
\* take is to enter generate_file as the fallback for the same file; the run
\* does not fail.
C14_MalformedTurnAborts ==
    /\ [](MalformedTurn =>
            /\ loc.stop_trying
            /\ ~loc.patch_success
            /\ loc.tool_calls = loc.attempt_count - 1
            /\ Len(loc.requests) = loc.attempt_count)
    /\ [][MalformedTurn =>
            /\ pc' = "generate_file"
            /\ loc' = [loc EXCEPT !.fallback = TRUE]
            /\ i' = i
            /\ calls' = calls
            /\ reads' = reads
            /\ writes' = writes]_vars

\* C14 witness: the fallback was entered after a malformed third turn that
\* followed two failed proposals
C14_Witness ==
    /\ pc = "generate_file"
    /\ loc.fallback
    /\ loc.attempt_count = 3
    /\ loc.tool_calls = 2
    /\ loc.stop_trying

\* the writes made for instruction k of the plan
WritesOf(k) == {n \in 1..Len(writes) : writes[n].idx = k}

C16_OneWritePerInstruction ==
    /\ \A k \in 1..Len(plan.files_to_update) :
         /\ k < i => Cardinality(WritesOf(k)) = 1
         /\ k >= i => WritesOf(k) = {}
    /\ \A n \in 1..Len(writes) :
         /\ writes[n].idx >= 1 => writes[n].by \in {"generate_patch", "generate_file"}
         /\ writes[n].by = "generate_patch" =>
              \A c \in 1..Len(calls) :
                 calls[c].idx = writes[n].idx => calls[c].fn # "generate_file"

\* C16 witness: a run has ended after two instructions, the first written by
\* the patch and the second by the fallback
C16_Witness ==
    /\ pc = "done"
    /\ Len(plan.files_to_update) = 2
    /\ \E n \in WritesOf(1) : writes[n].by = "generate_patch"
    /\ \E n \in WritesOf(2) : writes[n].by = "generate_file" /\ writes[n].fallback

\* the writes apply_changes has made
OutputWrites == {n \in 1..Len(writes) : writes[n].idx >= 1}

\* C17 (as claimed): for any plan, one that names a path twice included, no
\* output path is written twice and no instruction reads a file that an
\* earlier instruction of the run has overwritten.
C17_OneWriterPerPath ==
    /\ \A m, n \in OutputWrites : m # n => writes[m].file # writes[n].file
    /\ \A r \in reads :
         \A n \in OutputWrites :
            writes[n].idx < r.idx => writes[n].file # SdkFile(r.file_path)

\* C18: the stages run in the order selection, analysis, application:
\* get_relevant_context is the first call, get_diff_analysis the second and
\* apply_changes the third; get_diff_analysis is called and runs only with
\* every judgment resolved and its decision in the list passed on, no plan
\* exists before the analysis has returned, and nothing is generated or
\* written for an instruction before apply_changes is called.
C18_StagesInOrder ==
    /\ \A n \in 1..Len(calls) :
         /\ calls[n].fn = "get_relevant_context" <=> n = 1
         /\ calls[n].fn = "get_diff_analysis" <=> n = 2
         /\ calls[n].fn = "apply_changes" <=> n = 3
    /\ pc \in {"run", "get_relevant_context"} => calls = <<>>
    /\ pc = "gather" => Len(calls) = 1
    /\ pc = "get_diff_analysis" => Len(calls) = 1
    /\ pc \in {"get_diff_analysis", "analysis_call"} =>
         /\ Pending = {}
         /\ Len(relevant_context) = Len(cands)
         /\ \A k \in 1..Len(cands) : relevant_context[k] = judged[k]
    /\ pc \in {"analysis_call", "apply_changes"} => Len(calls) = 2
    /\ Len(calls) <= 1 \/ pc = "analysis_call" => plan = NoPlan
    /\ Len(calls) <= 2 => OutputWrites = {} /\ reads = {} /\ loc = NoLocals /\ i = 0
    /\ Len(calls) >= 3 => ~args.noai

\* C18 witness: the second of two judgments resolved first, then the first,
\* and the analysis was called
C18_Witness ==
    /\ pc = "analysis_call"
    /\ Len(cands) = 2
    /\ relevant_context[1].inclusion
    /\ ~relevant_context[2].inclusion

\* a judgment of this run has raised
JudgmentRaised == \E k \in DOMAIN judged : judged[k] = Raised

\* C19: when a judgment raises, get_relevant_context fails as a whole: the
\* run is failed, no list of decisions is returned, and neither
\* get_diff_analysis nor apply_changes is called.
C19_JudgmentFailureFailsStage ==
    JudgmentRaised =>
        /\ pc = "failed"
        /\ relevant_context = <<>>
        /\ analysis_context = <<>>
        /\ plan = NoPlan
        /\ Len(calls) = 1
        /\ calls[1].fn = "get_relevant_context"
        /\ \A r \in context_reads : r.by = "get_relevant_context"
        /\ OutputWrites = {}

\* C19 witness: of two judgments the first has resolved with a decision and
\* the second has raised
C19_Witness ==
    /\ Len(cands) = 2
    /\ DOMAIN judged = {1, 2}
    /\ judged[1] \in Decisions
    /\ judged[2] = Raised

\* the decisions passed to the analysis that include their file
IncludedDecisions ==
    {k \in 1..Len(relevant_context) : relevant_context[k].inclusion}

\* the paths a stage has read
PathsReadBy(stage) == {r.file_path : r \in {x \in context_reads : x.by = stage}}

\* the analysis context has a block for each included decision and no other
BlocksAreTheIncluded ==
    /\ Len(analysis_context) = Cardinality(IncludedDecisions)
    /\ \A p \in Paths :
         (\E n \in 1..Len(analysis_context) : analysis_context[n] = p)
           <=> (\E k \in IncludedDecisions : relevant_context[k].filename = p)

\* C20 (as claimed): the analysis context has a block for exactly the
\* included decisions, and the file of a decision with inclusion = false is
\* never read during the run.
C20_Original ==
    pc = "analysis_call" =>
        /\ BlocksAreTheIncluded
        /\ \A k \in 1..Len(relevant_context) :
             ~relevant_context[k].inclusion =>
                \A r \in context_reads \cup reads :
                   r.file_path # relevant_context[k].filename

\* C20 (amended): the analysis context has a block for exactly the included
\* decisions, and get_diff_analysis reads exactly the files those decisions
\* name; every candidate file, whatever its decision, has been read before by
\* get_relevant_context for its judgment prompt.
C20_AnalysisReadsIncludedOnly ==
    pc = "analysis_call" =>
        /\ BlocksAreTheIncluded
        /\ PathsReadBy("get_diff_analysis") =
             {relevant_context[k].filename : k \in IncludedDecisions}
        /\ PathsReadBy("get_relevant_context") =
             {cands[k] : k \in 1..Len(cands)}

\* C20 witness: of two candidates the analysis was given p1 and not p2, and
\* p2 was read by the selection stage alone
C20_Witness ==
    /\ pc = "analysis_call"
    /\ cands = <<"p1", "p2">>
    /\ relevant_context = <<[filename |-> "p1", inclusion |-> TRUE],
                            [filename |-> "p2", inclusion |-> FALSE]>>
    /\ analysis_context = <<"p1">>
    /\ "p2" \in PathsReadBy("get_relevant_context")
    /\ "p2" \notin PathsReadBy("get_diff_analysis")

\* what a reader is given for path p: the text of the file at the start of
\* the run, or the error string when the file cannot be read
ContentOrPlaceholder(p) ==
    IF IsText(InitialFiles[SdkFile(p)]) THEN InitialFiles[SdkFile(p)]
    ELSE ErrorString

\* the run has failed for a reason that is not a read: no candidate, a
\* judgment that raised, mismatched lists or a missing creation flag
FailedForAnotherReason ==
    \/ Len(calls) = 1 /\ (Len(cands) = 0 \/ JudgmentRaised)
    \/ ApplyChangesCalled /\ ListsDiffer

\* C21: a file that cannot be read never stops the pipeline: the selection
\* stage, the analysis stage and generate_patch are given the error string in
\* place of the content, for a missing file as for an unreadable one, and the
\* stage goes on; the run fails for other reasons only.
C21_ReadFailureIsPlaceholder ==
    /\ ReadFileContent(NoFile) = ErrorString
    /\ ReadFileContent(Unreadable) = ErrorString
    /\ \A r \in context_reads : r.content = ContentOrPlaceholder(r.file_path)
    /\ \A c \in 1..Len(calls) :
         (calls[c].fn = "generate_patch" /\ c = 4) =>
            calls[c].existing_file_content = ContentOrPlaceholder(calls[c].file_path)
    /\ (pc = "generate_patch" /\ i = 1) =>
         loc.existing_file_content = ContentOrPlaceholder(loc.file_path)
    /\ pc = "failed" => FailedForAnotherReason

\* C21 witness: the missing file p2 was read by the selection stage and by
\* the analysis stage, both were given the error string, and the analysis
\* was called
C21_Witness ==
    /\ pc = "analysis_call"
    /\ ~IsText(InitialFiles[SdkFile("p2")])
    /\ \E r \in context_reads :
         r.by = "get_relevant_context" /\ r.file_path = "p2"
           /\ r.content = ErrorString
    /\ \E r \in context_reads :
         r.by = "get_diff_analysis" /\ r.file_path = "p2"
           /\ r.content = ErrorString

\* history h is the prompt followed by n rounds, each a proposal and then
\* the result apply_patch gave for it at that attempt
RoundsInOrder(h, n) ==
    /\ Len(h) = 1 + 2 * n
    /\ "part" \in DOMAIN h[1]
    /\ \A j \in 1..n :
         /\ "reply" \in DOMAIN h[2 * j]
         /\ h[2 * j].reply.kind = "apply_patch"
         /\ "response" \in DOMAIN h[2 * j + 1]
         /\ h[2 * j + 1].response =
              ApplyPatch(fs[SdkFile(loc.file_path)], h[2 * j].reply.search_text,
                         h[2 * j].reply.replacement_text, j)

\* C22: the patch conversation is append-only and ordered: the k-th draft
\* request carries the prompt followed by the proposal and the validation
\* result of each of the attempts 1..k-1, in order; each request extends the
\* one before it by exactly that round, and the history kept extends the last
\* request.
C22_HistoryAppendOnly ==
    pc = "generate_patch" =>
        /\ Len(loc.requests) = loc.attempt_count
        /\ \A k \in 1..Len(loc.requests) :
             /\ RoundsInOrder(loc.requests[k], k - 1)
             /\ k > 1 =>
                  SubSeq(loc.requests[k], 1, Len(loc.requests[k - 1]))
                    = loc.requests[k - 1]
        /\ Len(loc.requests) >= 1 =>
             /\ Len(loc.contents) >= Len(loc.requests[Len(loc.requests)])
             /\ SubSeq(loc.contents, 1, Len(loc.requests[Len(loc.requests)]))
                  = loc.requests[Len(loc.requests)]
        /\ LoopRuns(loc.patch_success, loc.stop_trying) =>
             RoundsInOrder(loc.contents, loc.attempt_count)

\* C22 witness: a third draft was requested after two different proposals
\* had failed
C22_Witness ==
    /\ pc = "generate_patch"
    /\ Len(loc.requests) = 3
    /\ loc.requests[3][2].reply # loc.requests[3][4].reply

\* content with the first k pairs of s, r applied in list order, each to the
\* result of the one before
RECURSIVE InListOrder(_, _, _, _)
InListOrder(content, s, r, k) ==
    IF k = 0 THEN content
    ELSE StrReplace(InListOrder(content, s, r, k - 1), s[k], r[k])

\* the loop of generate_patch has ended with a validated proposal
Applied == pc = "generate_patch" /\ loc.patch_success

\* C24: after a proposal validates the loop ends, and the one step
\* generate_patch takes writes to the output path, once, the content read at
\* the start of the loop with the pairs of the proposal applied in list
\* order, each to the result of the one before; then the next file is due.
C24_CommitInListOrder ==
    /\ [](Applied =>
            /\ ~LoopRuns(loc.patch_success, loc.stop_trying)
            /\ loc.existing_file_content = loc.contents[1].existing_file_content
            /\ Len(loc.final_search_text) = Len(loc.final_replacement_text)
            /\ WritesOf(i) = {})
    /\ [][Applied =>
            /\ writes' = Append(writes,
                 [file |-> loc.ai_file_path,
                  content |-> InListOrder(loc.existing_file_content,
                                          loc.final_search_text,
                                          loc.final_replacement_text,
                                          Len(loc.final_search_text)),
                  by |-> "generate_patch", idx |-> i, fallback |-> FALSE])
            /\ fs' = [fs EXCEPT ![loc.ai_file_path] =
                        InListOrder(loc.existing_file_content,
                                    loc.final_search_text,
                                    loc.final_replacement_text,
                                    Len(loc.final_search_text))]
            /\ pc' = "loop"
            /\ i' = i + 1
            /\ calls' = calls]_vars

\* C24 witness: the two-pair proposal was committed to p1 ("aab"): b -> a
\* gives "aaa", then aa -> b gives "ba"
C24_Witness ==
    /\ pc = "loop"
    /\ i = 2
    /\ \E n \in WritesOf(1) :
         /\ writes[n].by = "generate_patch"
         /\ writes[n].content = <<"b", "a">>
         /\ fs[writes[n].file] = <<"b", "a">>

\* generate_patch is in or after its loop for a path that has no file,
\* although the plan said the file needs no creation
MisjudgedCreation ==
    /\ pc \in {"generate_patch", "generate_file"}
    /\ pc = "generate_file" => loc.fallback
    /\ fs[SdkFile(loc.file_path)] = NoFile

\* the loop of generate_patch has ended without a validated proposal
Aborted ==
    \/ pc = "generate_patch" /\ loc.stop_trying /\ ~loc.patch_success
    \/ pc = "generate_file" /\ loc.fallback

\* C25 (as claimed): for a path with no file and requires_creation = false no
\* proposal validates, each is refused because the file does not exist, and
\* the loop ends at the attempt cap, MAX_ATTEMPTS = 5; the fallback then
\* writes the file (that part is C1).
C25_MisjudgedCreationAbortsAtCap ==
    MisjudgedCreation =>
        /\ ~loc.patch_success
        /\ \A r \in ToolResults(loc.contents) :
             ~r.success /\ r.kind \in {"nofile", "stop"}
        /\ Aborted /\ loc.tool_calls = loc.attempt_count =>
             loc.attempt_count = MAX_ATTEMPTS

\* C26: a loop of generate_patch that ends without a validated proposal has
\* written nothing for its instruction, in the loop or on its way to the
\* fallback; the fallback request carries the instruction and the file
\* content of the first draft request.
C26_FallbackSeesTheOriginal ==
    /\ [](pc = "generate_patch" /\ ~loc.patch_success => WritesOf(i) = {})
    /\ [](pc = "generate_file" /\ loc.fallback =>
            /\ WritesOf(i) = {}
            /\ loc.implementation_detail =
                 loc.requests[1][1].implementation_detail
            /\ ReadFileContent(fs[SdkFile(loc.file_path)]) =
                 loc.requests[1][1].existing_file_content)
    /\ [](\A c \in 1..Len(calls) :
            calls[c].fn = "generate_file" /\ calls[c].fallback =>
              \E d \in 1..(c - 1) :
                /\ calls[d].fn = "generate_patch"
                /\ calls[d].idx = calls[c].idx
                /\ calls[d].file_path = calls[c].file_path
                /\ calls[d].implementation_detail = calls[c].implementation_detail
                /\ calls[d].existing_file_content = calls[c].existing_file_content)
    /\ [][pc = "generate_patch" /\ ~loc.patch_success =>
            fs' = fs /\ writes' = writes]_vars

\* C26 witness: the fallback has been called for an existing file, p1, after
\* a proposal that failed and a malformed turn, in a run that writes in place
C26_Witness ==
    /\ args.mode = "work"
    /\ \E c \in 1..Len(calls) :
         /\ calls[c].fn = "generate_file"
         /\ calls[c].fallback
         /\ calls[c].file_path = "p1"
         /\ calls[c].existing_file_content = <<"a", "a", "b">>

\* the replies of the model in the history of the loop, in order
RECURSIVE ProposalsIn(_)
ProposalsIn(h) ==
    IF h = <<>> THEN <<>>
    ELSE IF h[1].role = "model" /\ h[1].reply.kind = "apply_patch"
    THEN <<h[1].reply>> \o ProposalsIn(Tail(h))
    ELSE ProposalsIn(Tail(h))

RECURSIVE ResultsIn(_)
ResultsIn(h) ==
    IF h = <<>> THEN <<>>
    ELSE IF h[1].role = "user" /\ "response" \in DOMAIN h[1]
    THEN <<h[1].response>> \o ResultsIn(Tail(h))
    ELSE ResultsIn(Tail(h))

\* C27: the operations kept for the commit are those of the one proposal
\* that validated, which is the last of the loop, every earlier one having
\* failed; while no proposal has validated none is kept and nothing is
\* written, and the commit writes the original content with the kept
\* operations applied and nothing else.
C27_OnlyTheValidatedProposal ==
    /\ [](pc = "generate_patch" =>
            LET proposals == ProposalsIn(loc.contents)
                results == ResultsIn(loc.contents)
                n == Len(proposals)
            IN  /\ Len(results) = n
                /\ IF loc.patch_success
                   THEN /\ n >= 1
                        /\ results[n].success
                        /\ \A k \in 1..(n - 1) : ~results[k].success
                        /\ loc.final_search_text = proposals[n].search_text
                        /\ loc.final_replacement_text =
                             proposals[n].replacement_text
                   ELSE /\ \A k \in 1..n : ~results[k].success
                        /\ loc.final_search_text = <<>>
                        /\ loc.final_replacement_text = <<>>)
    /\ [][pc = "generate_patch" =>
            IF loc.patch_success
            THEN LET last == ProposalsIn(loc.contents)[Len(ProposalsIn(loc.contents))]
                 IN  fs' = [fs EXCEPT ![loc.ai_file_path] =
                              InListOrder(loc.existing_file_content,
                                          last.search_text,
                                          last.replacement_text,
                                          Len(last.search_text))]
            ELSE fs' = fs /\ writes' = writes]_vars

\* C27 witness: the commit of the two-pair proposal after an attempt with the
\* ambiguous one: "aab" became "ba", not what a -> b would have made of it
C27_Witness ==
    /\ pc = "generate_patch"
    /\ loc.patch_success
    /\ loc.attempt_count >= 2
    /\ loc.existing_file_content = <<"a", "a", "b">>
    /\ Len(loc.final_search_text) = 2
    /\ ProposalsIn(loc.contents)[1].search_text = <<<<"a">>>>

\* the loop entered for file k is over and file k is written, once, by the
\* patch or by the fallback
LoopOver(k) ==
    /\ pc = "loop"
    /\ i = k + 1
    /\ Cardinality(WritesOf(k)) = 1
    /\ \A n \in WritesOf(k) :
         \/ writes[n].by = "generate_patch"
         \/ writes[n].by = "generate_file" /\ writes[n].fallback

\* C31: whatever the model replies, the loop of generate_patch makes at most
\* MAX_ATTEMPTS + 1 = 6 draft requests for a file, and it ends: with the
\* patched content written or with the file generated by the fallback.
C31_PatchLoopTerminates ==
    /\ [](pc \in {"generate_patch", "generate_file"} =>
            /\ Len(loc.requests) <= MAX_ATTEMPTS + 1
            /\ loc.attempt_count = Len(loc.requests))
    /\ \A k \in 1..MaxFiles : PatchStarted(k) ~> LoopOver(k)

\* C31 witness: a loop has ended after its sixth draft request, the one
\* answered by the stop signal, and the fallback is called
C31_Witness ==
    /\ pc = "generate_file"
    /\ loc.fallback
    /\ Len(loc.requests) = MAX_ATTEMPTS + 1
    /\ loc.tool_calls = MAX_ATTEMPTS + 1

\* the locals of generate_patch are live: in the loop, at the commit, or in
\* the fallback it called
InGeneratePatch ==
    \/ pc = "generate_patch"
    \/ pc = "generate_file" /\ loc.fallback

\* C32: patch_success and stop_trying are never both true; the loop is left
\* with exactly one of them true; and the step after a validated proposal is
\* the commit: no draft request, no call of apply_patch and no read follow.
C32_SuccessAndStopExclusive ==
    /\ [](InGeneratePatch =>
            /\ ~(loc.patch_success /\ loc.stop_trying)
            /\ (pc = "generate_file" \/ ~LoopRuns(loc.patch_success, loc.stop_trying))
                 => (loc.patch_success # loc.stop_trying)
            /\ pc = "generate_file" => loc.stop_trying
            /\ loc.patch_success =>
                 /\ loc.tool_calls = Len(ResultsIn(loc.contents))
                 /\ loc.attempt_count = Len(loc.requests)
                 /\ ResultsIn(loc.contents)[loc.tool_calls].success)
    /\ [][pc = "generate_patch" /\ loc.patch_success =>
            /\ pc' = "loop"
            /\ loc' = NoLocals
            /\ calls' = calls
            /\ reads' = reads
            /\ Len(writes') = Len(writes) + 1]_vars

\* C32 witness: the first proposal validated; the loop is left with
\* patch_success alone
C32_Witness ==
    /\ pc = "generate_patch"
    /\ loc.patch_success
    /\ ~loc.stop_trying
    /\ loc.attempt_count = 1
    /\ loc.tool_calls = 1

\* a proposal that passes every rule of apply_patch against content
ValidatesIn(content, reply) ==
    /\ reply.kind = "apply_patch"
    /\ IsText(content)
    /\ Len(reply.search_text) = Len(reply.replacement_text)
    /\ \A k \in 1..Len(reply.search_text) :
         /\ reply.search_text[k] # <<>>
         /\ Cardinality(Positions(content, reply.search_text[k])) >= 1
         /\ StrCount(content, reply.search_text[k]) = 1

\* the sixth attempt of the loop was a proposal that passes every rule,
\* after five that did not
SixthValidates ==
    /\ pc = "generate_patch"
    /\ loc.attempt_count = MAX_ATTEMPTS + 1
    /\ Len(ProposalsIn(loc.contents)) = MAX_ATTEMPTS + 1
    /\ ValidatesIn(fs[SdkFile(loc.file_path)],
                   ProposalsIn(loc.contents)[MAX_ATTEMPTS + 1])

\* C33: the cap is tested in the failure branches only: a proposal that
\* validates on attempt 6, after five failures, is a success without the stop
\* signal, and generate_patch writes the patched content and does not call
\* generate_file.
C33_SixthAttemptMaySucceed ==
    /\ [](SixthValidates =>
            /\ loc.patch_success
            /\ ~loc.stop_trying
            /\ ResultsIn(loc.contents)[MAX_ATTEMPTS + 1].success
            /\ ResultsIn(loc.contents)[MAX_ATTEMPTS + 1].kind = "ok"
            /\ \A k \in 1..MAX_ATTEMPTS : ~ResultsIn(loc.contents)[k].success)
    /\ [][SixthValidates =>
            /\ pc' = "loop"
            /\ calls' = calls
            /\ writes' = Append(writes,
                 [file |-> loc.ai_file_path,
                  content |-> InListOrder(loc.existing_file_content,
                                          loc.final_search_text,
                                          loc.final_replacement_text,
                                          Len(loc.final_search_text)),
                  by |-> "generate_patch", idx |-> i, fallback |-> FALSE])]_vars

\* C33 witness: five ambiguous proposals for p1, then the one that validates
C33_Witness ==
    /\ SixthValidates
    /\ loc.file_path = "p1"
    /\ loc.patch_success
    /\ ProposalsIn(loc.contents)[MAX_ATTEMPTS].search_text = <<<<"a">>>>

\* C35: the list get_relevant_context returns has, at place k, the decision
\* of the judgment issued for the k-th candidate, in whatever order the
\* judgments completed; get_diff_analysis puts the blocks of the included
\* decisions in its prompt in the order of that list.
C35_DecisionsInCandidateOrder ==
    pc \in {"get_diff_analysis", "analysis_call"} =>
        /\ Len(completion) = Len(cands)
        /\ {completion[n] : n \in 1..Len(completion)} = 1..Len(cands)
        /\ Len(relevant_context) = Len(cands)
        /\ \A k \in 1..Len(cands) : relevant_context[k] = judged[k]
        /\ pc = "analysis_call" =>
             /\ Len(analysis_context) = Cardinality(IncludedDecisions)
             /\ \E f \in [1..Len(analysis_context) -> IncludedDecisions] :
                  /\ \A m, n \in 1..Len(analysis_context) : m < n => f[m] < f[n]
                  /\ \A n \in 1..Len(analysis_context) :
                       analysis_context[n] = relevant_context[f[n]].filename

\* C35 witness: the judgment of the second candidate completed first; both
\* files are included, and the analysis has them in the candidates' order
C35_Witness ==
    /\ pc = "analysis_call"
    /\ cands = <<"p1", "p2">>
    /\ completion = <<2, 1>>
    /\ relevant_context = <<[filename |-> "p1", inclusion |-> TRUE],
                            [filename |-> "p2", inclusion |-> TRUE]>>
    /\ analysis_context = <<"p1", "p2">>

\* phase 1 of this run returned no candidate
EmptyCandidates ==
    /\ pc \in {"gather", "failed"}
    /\ Len(calls) = 1
    /\ cands = <<>>

\* C36 (as claimed): with an empty candidate list get_relevant_context
\* raises, the analysis and apply_changes are never called, and no file is
\* written in that run.
C36_Original ==
    EmptyCandidates =>
        /\ calls = <<StageCall("get_relevant_context")>>
        /\ plan = NoPlan
        /\ writes = <<>>
        /\ fs = InitialFiles

\* C36: with an empty candidate list get_relevant_context raises and the run
\* ends there: no decision list is returned, the analysis and apply_changes
\* are never called, nothing is read and no file of the SDK or of the output
\* tree is written; the debug files of a debug run in test mode are.
C36_EmptyCandidatesRaise ==
    /\ [](EmptyCandidates =>
            /\ calls = <<StageCall("get_relevant_context")>>
            /\ plan = NoPlan
            /\ relevant_context = <<>>
            /\ reads = {}
            /\ OutputWrites = {}
            /\ \A n \in 1..Len(writes) :
                 writes[n].by = "debug" /\ args.debug /\ args.mode = "test"
            /\ \A key \in DOMAIN fs :
                 key[1] # "debug" => fs[key] = InitialFiles[key])
    /\ [][EmptyCandidates =>
            pc = "gather" /\ pc' = "failed" /\ calls' = calls]_vars

\* C36 witness: a run has ended in get_relevant_context, which had no
\* candidate
C36_Witness ==
    /\ EmptyCandidates
    /\ pc = "failed"
    /\ ~args.noai

CurrentChange == changes[change_idx]

AtChange == cpc = "apply" /\ change_idx <= Len(changes)

\* t ends with s
EndsIn(t, s) == Len(t) >= Len(s) /\ SubSeq(t, Len(t) - Len(s) + 1, Len(t)) = s

\* C39: with dry_run = true apply_changes leaves every file as it was, for
\* any changes; with dry_run = false a 'modify' change writes nothing, a
\* 'create' change makes the target exactly the change's code, and an
\* 'add_method' change puts the code at the end of an existing target, after
\* what it held, or makes a missing target exactly the code; no change
\* touches a file other than its target.
C39_DryRunAndActions ==
    /\ [](dry_run => sdk_files = sdk_files0)
    /\ [](\A f \in ClientPaths :
            (\A n \in 1..Len(changes) :
               changes[n].file = f => changes[n].action \notin {"create", "add_method"})
              => sdk_files[f] = sdk_files0[f])
    /\ [][AtChange =>
            /\ \A f \in ClientPaths :
                 f # CurrentChange.file => sdk_files'[f] = sdk_files[f]
            /\ (dry_run \/ CurrentChange.action \notin {"create", "add_method"})
                 => sdk_files' = sdk_files
            /\ (~dry_run /\ CurrentChange.action = "create")
                 => sdk_files'[CurrentChange.file] = CurrentChange.code
            /\ (~dry_run /\ CurrentChange.action = "add_method"
                         /\ sdk_files[CurrentChange.file] = NoFile)
                 => sdk_files'[CurrentChange.file] = CurrentChange.code
            /\ (~dry_run /\ CurrentChange.action = "add_method"
                         /\ sdk_files[CurrentChange.file] # NoFile)
                 => LET old == sdk_files[CurrentChange.file]
                        new == sdk_files'[CurrentChange.file]
                    IN  /\ EndsIn(new, CurrentChange.code)
                        /\ \E w \in 0..Len(old) :
                             /\ \A q \in (w + 1)..Len(old) : old[q] \in Whitespace
                             /\ (w > 0 => old[w] \notin Whitespace)
                             /\ new = SubSeq(old, 1, w) \o <<"\n", "\n">>
                                        \o CurrentChange.code]_vars

\* C39 witness: without dry_run, a method was added to the existing f1 and
\* then f2, which was missing, was made by an add_method change too
C39_Witness ==
    /\ cpc = "done"
    /\ ~dry_run
    /\ Len(changes) = 2
    /\ changes[1] = [file |-> "f1", action |-> "add_method", code |-> <<"x">>]
    /\ changes[2] = [file |-> "f2", action |-> "add_method", code |-> <<"x">>]
    /\ sdk_files0 = [f \in ClientPaths |-> IF f = "f1" THEN <<"a", "\n">> ELSE NoFile]
    /\ sdk_files["f1"] = <<"a", "\n", "\n", "x">>
    /\ sdk_files["f2"] = <<"x">>

(***************************************************************************)
(* Further claims about apply_patch and the substitution, under PatchSpec. *)
(***************************************************************************)
\* how often pair k's search text is counted in the content the pairs
\* before it have made
CountWhenApplied(k) == StrCount(WithPairsApplied(k - 1), search_text[k])

\* C34: the substitution re-checks nothing: a validated proposal is always
\* committed, and each pair replaces every occurrence of its search text in
\* the content made by the pairs before it: none when they consumed it
\* (the pair changes nothing), several when an earlier replacement brought
\* more of it.
C34_SubstitutionReplacesEveryOccurrence ==
    tpc = "patched" =>
        /\ tool_result.success
        /\ tool_result.kind = "ok"
        /\ patched_content = WithPairsApplied(Len(search_text))
        /\ \A k \in 1..Len(search_text) :
             /\ Len(WithPairsApplied(k)) =
                  Len(WithPairsApplied(k - 1))
                  + CountWhenApplied(k)
                    * (Len(replacement_text[k]) - Len(search_text[k]))
             /\ CountWhenApplied(k) = 0 =>
                  WithPairsApplied(k) = WithPairsApplied(k - 1)

\* C34 witness: "ab" with a -> b, then b -> "": the second search text is
\* in the first replacement, so it is replaced at two places and nothing is
\* left of the file
C34_Witness ==
    /\ tpc = "patched"
    /\ disk0 = <<"a", "b">>
    /\ Len(search_text) = 2
    /\ Contains(replacement_text[1], search_text[2])
    /\ CountWhenApplied(2) = 2
    /\ patched_content = <<>>

\* the pairs that break a rule of apply_patch, and the rule a pair breaks
Violating == {j \in 1..Len(search_text) : ~PairValid(j)}

RuleOf(j) ==
    IF search_text[j] = <<>> THEN "empty"
    ELSE IF StrCount(disk0, search_text[j]) = 0 THEN "notfound"
    ELSE "multiple"

FirstViolating == CHOOSE j \in Violating : \A m \in Violating : j <= m

\* a call has returned for a proposal that reached the loop over the pairs
\* and has several pairs that break a rule
SeveralViolate ==
    /\ Returned
    /\ IsText(disk0)
    /\ Len(search_text) = Len(replacement_text)
    /\ Cardinality(Violating) >= 2

\* C38 (as claimed): when several pairs break a rule apply_patch reports the
\* first of them in list order, numbered from 1 and within the list, with
\* its rule, and has not examined the pairs after it.
C38_Original ==
    SeveralViolate =>
        /\ ~tool_result.success
        /\ tool_result.patch = FirstViolating
        /\ tool_result.patch \in 1..Len(search_text)
        /\ tool_result.kind = RuleOf(FirstViolating)
        /\ tool_result.counted <= FirstViolating

\* C38 (amended): when several pairs break a rule apply_patch stops at the
\* first of them in list order and has not examined the pairs after it; at
\* attempt numbers up to MAX_ATTEMPTS it reports that pair, numbered from 1
\* and within the list, with its rule; past MAX_ATTEMPTS it reports the stop
\* signal, which names no pair and no rule.
C38_FirstViolationOnly ==
    SeveralViolate =>
        /\ ~tool_result.success
        /\ tool_result.counted =
             IF RuleOf(FirstViolating) = "empty"
             THEN FirstViolating - 1 ELSE FirstViolating
        /\ tool_result.counted < Len(search_text)
        /\ attempt_number <= MAX_ATTEMPTS =>
             /\ tool_result.patch = FirstViolating
             /\ tool_result.patch \in 1..Len(search_text)
             /\ tool_result.kind = RuleOf(FirstViolating)
             /\ ~tool_result.stop_trying
        /\ attempt_number > MAX_ATTEMPTS =>
             /\ tool_result.kind = "stop"
             /\ tool_result.patch = 0
             /\ tool_result.stop_trying

\* C38 witness: within the cap, the first search text is not in the file and
\* the second is empty; the first pair is the one reported
C38_Witness ==
    /\ tpc = "returned"
    /\ SeveralViolate
    /\ attempt_number <= MAX_ATTEMPTS
    /\ RuleOf(1) = "notfound"
    /\ RuleOf(2) = "empty"
    /\ tool_result.patch = 1
    /\ tool_result.kind = "notfound"

====
